---------------------------- MODULE Spec2Model ----------------------------
(***************************************************************************)
(* The schema catalog of the real-estate listings API: the closed          *)
(* value-sets, the record shapes (interfaces) and the request/response     *)
(* envelope markers declared in index.ts, listings.ts, searches.ts,        *)
(* clients.ts, estimate.ts, favorites.ts and messages.ts, together with    *)
(* the relation the declarations define: which JSON payloads a shape       *)
(* admits.                                                                 *)
(*                                                                         *)
(* A declaration is data: a record shape is the list of its fields (name,  *)
(* optional or required, type expression), the types it extends and its    *)
(* own index signature.  HasType / Conforms give the declarations their    *)
(* meaning: the assignability of a JSON value written as an object         *)
(* literal to the declared type, property by property, with the excess     *)
(* property check that an index signature lifts.                           *)
(*                                                                         *)
(* The state machine is a consumer at the API boundary: it checks a string *)
(* against a value-set, classifies a shape by the marker it is built on,   *)
(* and receives a payload for a shape, decodes it and encodes it again.    *)
(***************************************************************************)
EXTENDS Integers, Sequences, FiniteSets, TLC

VARIABLES
  pc,        \* the last step taken: "idle", "member", "classified",
             \* "received", "decoded", "encoded"
  check,     \* the last value-set check: value-set, string, both answers
  shape,     \* the shape the payload or the classification is for
  wire,      \* the JSON object received
  typed,     \* the decoded value: known fields and the unrecognised rest
  out,       \* the JSON object encoded from the decoded value
  markers,   \* the envelope markers the classified shape is built on
  store,     \* the listings table of the planned service: a sequence of rows
  op,        \* the planned service's position: "ready", "searched",
             \* "bulk", "imported"
  call,       \* the input of that call
  ret        \* its outcome: the value returned, or that it raised

types == <<pc, check, shape, wire, typed, out, markers>>
vars == <<pc, check, shape, wire, typed, out, markers, store, op, call, ret>>

\* ---- bounds of the inputs
MaxArrayLen == 1

\* ---- type expressions: <<tag, data>>
string == <<"prim", "string">>
number == <<"prim", "number">>
boolean == <<"prim", "boolean">>
unknown == <<"prim", "unknown">>
null == <<"prim", "null">>
undefined == <<"prim", "undefined">>

\* A field declaration `name: ty` (opt: declared with `?`); dep names the
\* field a `@deprecated use X field instead` comment points to.
Field(name, opt, ty) ==
  [name |-> name, opt |-> opt, ty |-> ty, dep |-> ""]

Deprecated(name, opt, ty, instead) ==
  [name |-> name, opt |-> opt, ty |-> ty, dep |-> instead]

\* `typeof XValues[0]`: the type of the first element alone.
IndexedAccessFirst(arr) ==
  <<"union", [i \in {j \in DOMAIN arr : j = 1} |-> <<"lit", arr[i]>>]>>

\* `typeof XValues[number]`: the union of the literal types of the elements
\* of a readonly tuple.
IndexedAccess(arr) ==
  <<"union", [i \in DOMAIN arr |-> <<"lit", arr[i]>>]>>

\* A field list with the type of one field changed, or with one field made
\* required (used to state what a slip in a declaration would look like).
Retype(fields, name, ty) ==
  [i \in DOMAIN fields |->
     IF fields[i].name = name THEN [fields[i] EXCEPT !.ty = ty] ELSE fields[i]]

Require(fields, name) ==
  [i \in DOMAIN fields |->
     IF fields[i].name = name THEN [fields[i] EXCEPT !.opt = FALSE] ELSE fields[i]]

\* A field list with the deprecation note of one field removed.
Undeprecate(fields, name) ==
  [i \in DOMAIN fields |->
     IF fields[i].name = name THEN [fields[i] EXCEPT !.dep = ""] ELSE fields[i]]

\* ---- closed value-sets: the runtime arrays (`as const`)
\* AggregatesValues with the bedrooms key spelled details.numBedrooms.
AggregatesValuesRespelled ==
  <<"class", "status", "lastStatus", "type",
     "listPrice", "map", "address.area", "address.city",
     "address.neighborhood", "address.district", "address.streetName", "address.majorIntersection",
     "address.zip", "address.state", "address.communityCode", "address.streetDirection",
     "permissions.displayPublic", "permissions.displayInternetEntireListing", "permissions.displayAddressOnInternet", "details.propertyType",
     "details.style", "details.numBedrooms", "details.numBathrooms", "details.businessType",
     "details.businessSubType", "details.basement1", "details.basement2", "details.garage",
     "details.den", "details.sewer", "details.waterSource", "details.heating",
     "details.swimmingPool", "details.yearBuilt", "details.exteriorConstruction", "details.exteriorConstruction2",
     "details.sqft", "details.balcony", "details.driveway", "condominium.locker",
     "condominium.exposure", "condominium.ammenities", "condominium.pets", "condominium.parkingType",
     "condominium.stories", "condominium.propertyMgr", "condominium.condoCorp", "condominium.ensuiteLaundry",
     "nearby.ammenities", "office.brokerageName", "photoCount" >>

AggregatesValues ==
  <<"class", "status", "lastStatus", "type",
     "listPrice", "map", "address.area", "address.city",
     "address.neighborhood", "address.district", "address.streetName", "address.majorIntersection",
     "address.zip", "address.state", "address.communityCode", "address.streetDirection",
     "permissions.displayPublic", "permissions.displayInternetEntireListing", "permissions.displayAddressOnInternet", "details.propertyType",
     "details.style", "detail.numBedrooms", "details.numBathrooms", "details.businessType",
     "details.businessSubType", "details.basement1", "details.basement2", "details.garage",
     "details.den", "details.sewer", "details.waterSource", "details.heating",
     "details.swimmingPool", "details.yearBuilt", "details.exteriorConstruction", "details.exteriorConstruction2",
     "details.sqft", "details.balcony", "details.driveway", "condominium.locker",
     "condominium.exposure", "condominium.ammenities", "condominium.pets", "condominium.parkingType",
     "condominium.stories", "condominium.propertyMgr", "condominium.condoCorp", "condominium.ensuiteLaundry",
     "nearby.ammenities", "office.brokerageName", "photoCount" >>
YesNoValues ==
  <<"Y", "N" >>
ClassValues ==
  <<"condo", "residential", "commercial" >>
LastStatusValues ==
  <<"Sus", "Exp", "Sld", "Ter",
     "Dft", "Lsd", "Sc", "Sce",
     "Lc", "Pc", "Ext", "New" >>
OperatorValues ==
  <<"AND", "OR" >>
SimilarSortByValues ==
  <<"updatedOnDesc", "updatedOnAsc", "createdOnAsc", "createdOnDesc" >>
SortByValues ==
  <<"createdOnDesc", "updatedOnDesc", "createdOnAsc", "distanceAsc",
     "distanceDesc", "updatedOnAsc", "soldDateAsc", "soldDateDesc",
     "soldPriceAsc", "soldPriceDesc", "sqftAsc", "sqftDesc",
     "listPriceAsc", "listPriceDesc", "bedsAsc", "bedsDesc",
     "bathsDesc", "bathsAsc", "yearBuiltDesc", "yearBuiltAsc",
     "random", "statusAscListDateAsc", "statusAscListDateDesc", "statusAscListPriceAsc",
     "statusAscListPriceDesc", "repliersUpdatedOnAsc", "repliersUpdatedOnDesc" >>
StatisticsValues ==
  <<"avg-daysOnMarket", "sum-daysOnMarket", "min-daysOnMarket", "max-daysOnMarket",
     "avg-listPrice", "sum-listPrice", "min-listPrice", "max-listPrice",
     "avg-soldPrice", "sum-soldPrice", "min-soldPrice", "max-soldPrice",
     "cnt-new", "cnt-closed", "cnt-available", "med-listPrice",
     "med-soldPrice", "med-daysOnMarket", "sd-listPrice", "sd-soldPrice",
     "sd-daysOnMarket", "avg-priceSqft", "grp-mth", "grp-yr",
     "grp-day", "avg-tax", "med-tax" >>
\* StatusValues listed the other way round.
StatusValuesReversed ==
  <<"U", "A">>

StatusValues ==
  <<"A", "U" >>
\* TypeValues listing its first literal twice.
TypeValuesRepeated ==
  <<"sale", "lease", "sale">>

TypeValues ==
  <<"sale", "lease" >>
StreetDirectionValues ==
  <<"n", "e", "w", "s",
     "" >>
CoverImageValues ==
  <<"kitchen", "powder room", "ensuite", "family room",
     "exterior front", "backyard", "staircase", "primary bedroom",
     "laundry room", "office", "garage" >>

\* ---- type aliases
Aggregates ==
  IndexedAccess(AggregatesValues)
DateFormat ==
  <<"tmpl", "number-number-number">>
YesNo ==
  IndexedAccess(YesNoValues)
Class ==
  IndexedAccess(ClassValues)
LastStatus ==
  IndexedAccess(LastStatusValues)
\* Operator declared as a plain string.
OperatorLoose ==
  string

Operator ==
  IndexedAccess(OperatorValues)
SimilarSortBy ==
  IndexedAccess(SimilarSortByValues)
\* SortBy declared as a plain string.
SortByLoose ==
  string

SortBy ==
  IndexedAccess(SortByValues)
Statistics ==
  IndexedAccess(StatisticsValues)
Status ==
  IndexedAccess(StatusValues)
Type ==
  IndexedAccess(TypeValues)
ListingClass ==
  <<"lit", "ResidentialProperty">>
RollingPeriodName ==
  <<"union", <<<<"lit", "grp-30-days">>,
     <<"lit", "grp-90-days">>,
     <<"lit", "grp-365-days">>,
     <<"lit", "grp-day">>,
     <<"lit", "grp-mth">>,
     <<"lit", "grp-yr">>>>>>
ImageSearchItem ==
  <<"union", <<<<"ref", "ImageSearchValue">>, <<"ref", "ImageSearchUrl">>>>>>
StreetDirection ==
  IndexedAccess(StreetDirectionValues)
CoverImage ==
  IndexedAccess(CoverImageValues)
RangeStat ==
  <<"omit", <<<<"and", <<<<"ref", "BaseStat">>, <<"obj", [ extends |-> <<>>,
       index |-> <<>>,
       fields |-> <<
           Field("count", FALSE, number) >> ]>>>>>>, <<"mth", "yr">>>>>>
LocationCoordinates ==
  <<"union", <<<<"arr", <<"arr", <<"tup", <<number, number>>>>>>>>, null>>>>

\* ---- record shapes (interfaces), one definition per declaration
ApiRequest ==
  [ extends |-> <<<<"rec", unknown>>>>,
    index |-> <<>>,
    fields |-> <<>> ]

\* ApiResponse declared without `extends Record<string, unknown>`.
ApiResponseClosed ==
  [ extends |-> <<>>,
    index |-> <<>>,
    fields |-> <<>> ]

ApiResponse ==
  [ extends |-> <<<<"rec", unknown>>>>,
    index |-> <<>>,
    fields |-> <<>> ]

\* ApiRequestBody declaring a member of its own.
ApiRequestBodyNamed ==
  [ extends |-> <<<<"rec", unknown>>>>,
    index |-> <<>>,
    fields |-> <<Field("body", TRUE, unknown)>> ]

ApiRequestBody ==
  [ extends |-> <<<<"rec", unknown>>>>,
    index |-> <<>>,
    fields |-> <<>> ]

\* The fields Room declares.
RoomFields ==
  <<
      Field("description", TRUE, string),
      Field("features", TRUE, <<"union", <<string, null>>>>),
      Field("features2", TRUE, <<"union", <<string, null>>>>),
      Field("features3", TRUE, <<"union", <<string, null>>>>),
      Field("length", TRUE, <<"union", <<string, null>>>>),
      Field("width", TRUE, <<"union", <<string, null>>>>),
      Field("level", TRUE, <<"union", <<string, null>>>>) >>

\* Room declared with an index signature.
RoomOpen ==
  [ extends |-> <<<<"rec", unknown>>>>,
    index |-> <<>>,
    fields |-> RoomFields ]

Room ==
  [ extends |-> <<>>,
    index |-> <<>>,
    fields |-> RoomFields ]

Bathroom ==
  [ extends |-> <<>>,
    index |-> <<>>,
    fields |-> <<
        Field("pieces", TRUE, string),
        Field("level", TRUE, string),
        Field("count", TRUE, string) >> ]

Timestamp ==
  [ extends |-> <<>>,
    index |-> <<>>,
    fields |-> <<
        Field("idxUpdated", TRUE, <<"union", <<string, null>>>>),
        Field("listingUpdated", TRUE, <<"union", <<string, null>>>>),
        Field("photosUpdated", TRUE, <<"union", <<string, null>>>>),
        Field("conditionalExpiryDate", TRUE, <<"union", <<string, null>>>>),
        Field("terminatedDate", TRUE, <<"union", <<string, null>>>>),
        Field("suspendedDate", TRUE, <<"union", <<string, null>>>>),
        Field("listingEntryDate", TRUE, <<"union", <<string, null>>>>),
        Field("closedDate", TRUE, <<"union", <<string, null>>>>),
        Field("unavailableDate", TRUE, <<"union", <<string, null>>>>),
        Field("expiryDate", TRUE, <<"union", <<string, null>>>>),
        Field("extensionEntryDate", TRUE, <<"union", <<string, null>>>>),
        Field("possessionDate", TRUE, <<"union", <<string, null>>>>),
        Field("repliersUpdatedOn", TRUE, string) >> ]

Condominium ==
  [ extends |-> <<>>,
    index |-> <<>>,
    fields |-> <<
        Field("ammenities", TRUE, <<"arr", string>>),
        Field("buildingInsurance", TRUE, <<"union", <<string, null>>>>),
        Field("condoCorp", TRUE, <<"union", <<string, null>>>>),
        Field("condoCorpNum", TRUE, <<"union", <<string, null>>>>),
        Field("exposure", TRUE, <<"union", <<string, null>>>>),
        Field("lockerNumber", TRUE, string),
        Field("locker", TRUE, <<"union", <<string, null>>>>),
        Field("parkingType", TRUE, <<"union", <<string, null>>>>),
        Field("pets", TRUE, <<"union", <<string, null>>>>),
        Field("propertyMgr", TRUE, <<"union", <<string, null>>>>),
        Field("stories", TRUE, <<"union", <<string, null>>>>),
        Field("fees", TRUE, <<"obj", [ extends |-> <<>>,
             index |-> <<>>,
             fields |-> <<
                 Field("cableIncl", TRUE, <<"union", <<YesNo, string, null>>>>),
                 Field("heatIncl", TRUE, <<"union", <<YesNo, string, null>>>>),
                 Field("hydroIncl", TRUE, <<"union", <<YesNo, string, null>>>>),
                 Field("maintenance", TRUE, <<"union", <<string, null>>>>),
                 Field("parkingIncl", TRUE, <<"union", <<YesNo, string, null>>>>),
                 Field("taxesIncl", TRUE, <<"union", <<YesNo, string, null>>>>),
                 Field("waterIncl", TRUE, <<"union", <<YesNo, string, null>>>>) >> ]>>),
        Field("lockerUnitNumber", TRUE, <<"union", <<string, null>>>>),
        Field("ensuiteLaundry", TRUE, <<"union", <<YesNo, string, null>>>>),
        Field("sharesPercentage", TRUE, <<"union", <<string, null>>>>),
        Field("lockerLevel", TRUE, <<"union", <<string, null>>>>),
        Field("unitNumber", TRUE, <<"union", <<string, null>>>>) >> ]

OpenHouse ==
  [ extends |-> <<>>,
    index |-> <<>>,
    fields |-> <<
        Field("date", TRUE, string),
        Field("startTime", TRUE, string),
        Field("endTime", TRUE, string),
        Field("type", TRUE, <<"union", <<string, null>>>>),
        Field("status", TRUE, <<"union", <<string, null>>>>),
        Field("TZ", TRUE, <<"union", <<string, null>>>>) >> ]

Details ==
  [ extends |-> <<<<"rec", unknown>>>>,
    index |-> <<>>,
    fields |-> <<
        Field("airConditioning", TRUE, <<"union", <<string, null>>>>),
        Field("basement1", TRUE, <<"union", <<string, null>>>>),
        Field("basement2", TRUE, <<"union", <<string, null>>>>),
        Field("centralVac", TRUE, <<"union", <<string, null>>>>),
        Field("den", TRUE, <<"union", <<YesNo, null>>>>),
        Field("description", TRUE, <<"union", <<string, null>>>>),
        Field("elevator", TRUE, <<"union", <<string, null>>>>),
        Field("exteriorConstruction1", TRUE, <<"union", <<string, null>>>>),
        Field("exteriorConstruction2", TRUE, <<"union", <<string, null>>>>),
        Field("extras", TRUE, <<"union", <<string, null>>>>),
        Field("furnished", TRUE, <<"union", <<string, null>>>>),
        Field("garage", TRUE, <<"union", <<string, null>>>>),
        Field("heating", TRUE, <<"union", <<string, null>>>>),
        Field("numBathrooms", TRUE, <<"union", <<string, null>>>>),
        Field("numBathroomsPlus", TRUE, <<"union", <<string, null>>>>),
        Field("numBedrooms", TRUE, <<"union", <<string, null>>>>),
        Field("numBedroomsPlus", TRUE, <<"union", <<string, null>>>>),
        Field("numFireplaces", TRUE, <<"union", <<YesNo, string, null>>>>),
        Field("numGarageSpaces", TRUE, <<"union", <<string, null>>>>),
        Field("numParkingSpaces", TRUE, <<"union", <<string, null>>>>),
        Field("numRooms", TRUE, <<"union", <<string, null>>>>),
        Field("numRoomsPlus", TRUE, <<"union", <<string, null>>>>),
        Field("patio", TRUE, <<"union", <<string, null>>>>),
        Field("propertyType", TRUE, <<"union", <<string, null>>>>),
        Field("sqft", TRUE, <<"union", <<string, null>>>>),
        Field("style", TRUE, <<"union", <<string, null>>>>),
        Field("swimmingPool", TRUE, <<"union", <<string, null>>>>),
        Field("virtualTourUrl", TRUE, <<"union", <<string, null>>>>),
        Field("yearBuilt", TRUE, <<"union", <<string, null>>>>),
        Field("landAccessType", TRUE, <<"union", <<string, null>>>>),
        Field("landSewer", TRUE, <<"union", <<string, null>>>>),
        Field("viewType", TRUE, <<"union", <<string, null>>>>),
        Field("zoningDescription", TRUE, <<"union", <<string, null>>>>),
        Field("analyticsClick", TRUE, <<"union", <<string, null>>>>),
        Field("moreInformationLink", TRUE, <<"union", <<string, null>>>>),
        Field("alternateURLVideoLink", TRUE, <<"union", <<string, null>>>>),
        Field("flooringType", TRUE, <<"union", <<string, null>>>>),
        Field("foundationType", TRUE, <<"union", <<string, null>>>>),
        Field("landscapeFeatures", TRUE, <<"union", <<string, null>>>>),
        Field("fireProtection", TRUE, <<"union", <<string, null>>>>),
        Field("roofMaterial", TRUE, <<"union", <<string, null>>>>),
        Field("farmType", TRUE, <<"union", <<string, null>>>>),
        Field("zoningType", TRUE, <<"union", <<string, null>>>>),
        Field("businessType", TRUE, <<"union", <<string, null>>>>),
        Field("businessSubType", TRUE, <<"union", <<string, null>>>>),
        Field("landDisposition", TRUE, <<"union", <<string, null>>>>),
        Field("storageType", TRUE, <<"union", <<string, null>>>>),
        Field("constructionStyleSplitLevel", TRUE, <<"union", <<string, null>>>>),
        Field("constructionStatus", TRUE, <<"union", <<string, null>>>>),
        Field("loadingType", TRUE, <<"union", <<string, null>>>>),
        Field("ceilingType", TRUE, <<"union", <<string, null>>>>),
        Field("liveStreamEventURL", TRUE, <<"union", <<string, null>>>>),
        Field("energuideRating", TRUE, <<"union", <<string, null>>>>),
        Field("amperage", TRUE, <<"union", <<string, null>>>>),
        Field("sewer", TRUE, <<"union", <<string, null>>>>),
        Field("familyRoom", TRUE, <<"union", <<YesNo, null>>>>),
        Field("zoning", TRUE, <<"union", <<string, null>>>>),
        Field("driveway", TRUE, <<"union", <<string, null>>>>),
        Field("leaseTerms", TRUE, <<"union", <<string, null>>>>),
        Field("centralAirConditioning", TRUE, <<"union", <<string, null>>>>),
        Field("certificationLevel", TRUE, <<"union", <<string, null>>>>),
        Field("energyCertification", TRUE, <<"union", <<string, null>>>>),
        Field("parkCostMonthly", TRUE, <<"union", <<string, null>>>>),
        Field("commonElementsIncluded", TRUE, <<"union", <<string, null>>>>),
        Field("greenPropertyInformationStatement", TRUE, <<"union", <<string, null>>>>),
        Field("handicappedEquipped", TRUE, <<"union", <<string, null>>>>),
        Field("laundryLevel", TRUE, <<"union", <<string, null>>>>),
        Field("balcony", TRUE, <<"union", <<string, null>>>>),
        Field("numKitchens", TRUE, <<"union", <<string, null>>>>),
        Field("numKitchensPlus", TRUE, <<"union", <<string, null>>>>),
        Field("sqftRange", TRUE, <<"union", <<string, null>>>>),
        Field("numDrivewaySpaces", TRUE, <<"union", <<string, null>>>>),
        Field("HOAFee", TRUE, <<"union", <<string, null>>>>),
        Field("HOAFee2", TRUE, <<"union", <<string, null>>>>),
        Field("HOAFee3", TRUE, <<"union", <<string, null>>>>),
        Field("waterSource", TRUE, <<"union", <<string, null>>>>),
        Field("livingAreaMeasurement", TRUE, <<"union", <<string, null>>>>),
        Field("waterfront", TRUE, <<"union", <<string, null>>>>),
        Field("bathrooms", TRUE, <<"rec", <<"ref", "Bathroom">>>>),
        Field("numBathroomsHalf", TRUE, <<"union", <<string, null>>>>) >> ]

\* The fields Address declares.
AddressFields ==
  <<
      Field("area", TRUE, <<"union", <<string, null>>>>),
      Field("city", TRUE, <<"union", <<string, null>>>>),
      Field("country", TRUE, <<"union", <<string, null>>>>),
      Field("district", TRUE, <<"union", <<string, null>>>>),
      Field("majorIntersection", TRUE, <<"union", <<string, null>>>>),
      Field("neighborhood", TRUE, <<"union", <<string, null>>>>),
      Field("streetDirection", TRUE, <<"union", <<StreetDirection, null>>>>),
      Field("streetName", TRUE, <<"union", <<string, null>>>>),
      Field("streetNumber", TRUE, <<"union", <<string, null>>>>),
      Field("streetSuffix", TRUE, <<"union", <<string, null>>>>),
      Field("unitNumber", TRUE, <<"union", <<string, null>>>>),
      Field("zip", TRUE, <<"union", <<string, null>>>>),
      Field("state", TRUE, <<"union", <<string, null>>>>),
      Field("communityCode", TRUE, <<"union", <<string, null>>>>),
      Field("streetDirectionPrefix", TRUE, <<"union", <<string, null>>>>) >>

\* Address with city declared `city?: string`.
AddressCityNotNullable ==
  [ extends |-> <<>>,
    index |-> <<>>,
    fields |-> Retype(AddressFields, "city", string) ]

Address ==
  [ extends |-> <<>>,
    index |-> <<>>,
    fields |-> AddressFields ]

\* The fields Listing declares.
ListingFields ==
  <<
      Field("mlsNumber", TRUE, string),
      Field("resource", TRUE, string),
      Field("status", TRUE, Status),
      Field("class", TRUE, Class),
      Field("type", TRUE, Type),
      Field("listPrice", TRUE, string),
      Field("listDate", TRUE, string),
      Field("lastStatus", TRUE, LastStatus),
      Field("soldPrice", TRUE, <<"union", <<string, null>>>>),
      Field("soldDate", TRUE, <<"union", <<string, null>>>>),
      Field("originalPrice", TRUE, string),
      Field("assignment", TRUE, <<"union", <<string, null>>>>),
      Field("address", TRUE, <<"ref", "Address">>),
      Field("map", TRUE, <<"ref", "Map">>),
      Field("permissions", TRUE, <<"obj", [ extends |-> <<>>,
           index |-> <<>>,
           fields |-> <<
               Field("displayAddressOnInternet", TRUE, YesNo),
               Field("displayPublic", TRUE, YesNo),
               Field("displayInternetEntireListing", TRUE, YesNo) >> ]>>),
      Field("images", TRUE, <<"arr", string>>),
      Field("photoCount", TRUE, number),
      Field("details", TRUE, <<"ref", "Details">>),
      Field("daysOnMarket", TRUE, string),
      Field("occupancy", TRUE, <<"union", <<string, null>>>>),
      Field("updatedOn", TRUE, <<"union", <<string, null>>>>),
      Field("condominium", TRUE, <<"ref", "Condominium">>),
      Field("coopCompensation", TRUE, <<"union", <<string, null>>>>),
      Field("lot", TRUE, <<"obj", [ extends |-> <<>>,
           index |-> <<>>,
           fields |-> <<
               Field("acres", TRUE, <<"union", <<string, null>>>>),
               Field("depth", TRUE, <<"union", <<string, null>>>>),
               Field("irregular", TRUE, <<"union", <<string, null>>>>),
               Field("legalDescription", TRUE, <<"union", <<string, null>>>>),
               Field("measurement", TRUE, <<"union", <<string, null>>>>),
               Field("width", TRUE, <<"union", <<string, null>>>>),
               Field("size", TRUE, <<"union", <<string, null>>>>),
               Field("source", TRUE, <<"union", <<string, null>>>>),
               Field("dimensionsSource", TRUE, <<"union", <<string, null>>>>),
               Field("dimensions", TRUE, <<"union", <<string, null>>>>),
               Field("squareFeet", TRUE, <<"union", <<string, null>>>>),
               Field("features", TRUE, <<"union", <<string, null>>>>),
               Field("taxLot", TRUE, <<"union", <<string, null>>>>) >> ]>>),
      Field("nearby", TRUE, <<"obj", [ extends |-> <<>>,
           index |-> <<>>,
           fields |-> <<
               Field("ammenities", TRUE, <<"arr", string>>) >> ]>>),
      Field("office", TRUE, <<"obj", [ extends |-> <<>>,
           index |-> <<>>,
           fields |-> <<
               Field("brokerageName", TRUE, string) >> ]>>),
      Field("openHouse", TRUE, <<"rec", <<"ref", "OpenHouse">>>>),
      Field("rooms", TRUE, <<"rec", <<"ref", "Room">>>>),
      Field("taxes", TRUE, <<"obj", [ extends |-> <<>>,
           index |-> <<>>,
           fields |-> <<
               Field("annualAmount", TRUE, <<"union", <<string, null>>>>),
               Field("assessmentYear", TRUE, <<"union", <<string, null>>>>) >> ]>>),
      Field("timestamps", TRUE, <<"ref", "Timestamp">>),
      Field("agents", TRUE, <<"arr", <<"obj", [ extends |-> <<>>,
           index |-> <<unknown>>,
           fields |-> <<
               Field("agentId", TRUE, <<"union", <<string, null>>>>),
               Field("boardAgentId", TRUE, string),
               Field("officeId", TRUE, string),
               Field("updatedOn", TRUE, <<"union", <<string, null>>>>),
               Field("name", TRUE, <<"union", <<string, null>>>>),
               Field("board", TRUE, <<"union", <<string, null>>>>),
               Field("boardOfficeId", TRUE, <<"union", <<string, null>>>>),
               Field("position", TRUE, <<"union", <<string, null>>>>),
               Field("email", TRUE, <<"union", <<string, null>>>>),
               Field("phones", TRUE, <<"arr", string>>),
               Field("social", TRUE, <<"arr", string>>),
               Field("website", TRUE, <<"union", <<string, null>>>>),
               Field("photo", TRUE, <<"obj", [ extends |-> <<>>,
                    index |-> <<>>,
                    fields |-> <<
                        Field("small", TRUE, <<"union", <<string, null>>>>),
                        Field("large", TRUE, <<"union", <<string, null>>>>),
                        Field("updatedOn", TRUE, <<"union", <<string, null>>>>) >> ]>>),
               Field("brokerage", TRUE, <<"obj", [ extends |-> <<>>,
                    index |-> <<>>,
                    fields |-> <<
                        Field("name", TRUE, string),
                        Field("address", TRUE, <<"obj", [ extends |-> <<>>,
                             index |-> <<>>,
                             fields |-> <<
                                 Field("address1", TRUE, <<"union", <<string, null>>>>),
                                 Field("address2", TRUE, <<"union", <<string, null>>>>),
                                 Field("city", TRUE, <<"union", <<string, null>>>>),
                                 Field("state", TRUE, <<"union", <<string, null>>>>),
                                 Field("postal", TRUE, <<"union", <<string, null>>>>),
                                 Field("country", TRUE, <<"union", <<string, null>>>>) >> ]>>) >> ]>>) >> ]>>>>),
      Field("duplicates", TRUE, <<"arr", string>>),
      Field("boardId", TRUE, number),
      Field("comparables", TRUE, <<"arr", <<"partial", <<"ref", "Listing">>>>>>),
      Field("history", TRUE, <<"arr", <<"partial", <<"ref", "Listing">>>>>>) >>

\* Listing declared without `extends Record<string, unknown>`.
ListingClosed ==
  [ extends |-> <<>>,
    index |-> <<>>,
    fields |-> ListingFields ]

\* Listing with mlsNumber declared required.
ListingMlsRequired ==
  [ extends |-> <<<<"rec", unknown>>>>,
    index |-> <<>>,
    fields |-> Require(ListingFields, "mlsNumber") ]

\* Listing with listPrice declared a number.
ListingPriceNumber ==
  [ extends |-> <<<<"rec", unknown>>>>,
    index |-> <<>>,
    fields |-> Retype(ListingFields, "listPrice", number) ]

Listing ==
  [ extends |-> <<<<"rec", unknown>>>>,
    index |-> <<>>,
    fields |-> ListingFields ]

RollingPeriod ==
  [ extends |-> <<>>,
    index |-> <<<<"obj", [ extends |-> <<>>,
       index |-> <<>>,
       fields |-> <<
           Field("count", FALSE, number),
           Field("avg", TRUE, number),
           Field("sum", TRUE, number),
           Field("med", TRUE, number),
           Field("min", TRUE, number),
           Field("max", TRUE, number),
           Field("sd", TRUE, number) >> ]>>>>,
    fields |-> <<>> ]

ImageSearchItemBase ==
  [ extends |-> <<>>,
    index |-> <<>>,
    fields |-> <<
        Field("type", FALSE, string),
        Field("boost", FALSE, number) >> ]

ImageSearchValue ==
  [ extends |-> <<<<"ref", "ImageSearchItemBase">>>>,
    index |-> <<>>,
    fields |-> <<
        Field("type", FALSE, <<"lit", "text">>),
        Field("value", FALSE, string) >> ]

ImageSearchUrl ==
  [ extends |-> <<<<"ref", "ImageSearchItemBase">>>>,
    index |-> <<>>,
    fields |-> <<
        Field("type", FALSE, <<"lit", "image">>),
        Field("url", FALSE, string) >> ]

\* The fields SearchRequest declares.
SearchRequestFields ==
  <<
      Field("agent", TRUE, <<"arr", string>>),
      Field("aggregates", TRUE, <<"arr", Aggregates>>),
      Field("aggregateStatistics", TRUE, boolean),
      Field("amenities", TRUE, <<"arr", string>>),
      Field("area", TRUE, string),
      Field("balcony", TRUE, <<"arr", string>>),
      Field("basement", TRUE, <<"arr", string>>),
      Field("boardId", TRUE, <<"arr", number>>),
      Field("brokerage", TRUE, string),
      Field("businessSubType", TRUE, <<"arr", string>>),
      Field("businessType", TRUE, <<"arr", string>>),
      Field("city", TRUE, <<"arr", string>>),
      Field("class", TRUE, <<"arr", Class>>),
      Field("cluster", TRUE, boolean),
      Field("clusterFields", TRUE, string),
      Field("clusterLimit", TRUE, number),
      Field("clusterPrecision", TRUE, number),
      Field("clusterStatistics", TRUE, boolean),
      Field("coverImage", TRUE, CoverImage),
      Field("den", TRUE, string),
      Field("displayAddressOnInternet", TRUE, YesNo),
      Field("displayInternetEntireListing", TRUE, YesNo),
      Field("displayPublic", TRUE, YesNo),
      Field("district", TRUE, <<"arr", number>>),
      Field("driveway", TRUE, <<"arr", string>>),
      Field("exteriorConstruction", TRUE, <<"arr", string>>),
      Field("fields", TRUE, string),
      Field("garage", TRUE, <<"arr", string>>),
      Field("hasAgents", TRUE, boolean),
      Field("hasImages", TRUE, boolean),
      Field("heating", TRUE, <<"arr", string>>),
      Field("lastStatus", TRUE, <<"arr", LastStatus>>),
      Field("lat", TRUE, string),
      Field("listDate", TRUE, DateFormat),
      Field("listings", TRUE, boolean),
      Field("locker", TRUE, <<"arr", string>>),
      Field("long", TRUE, string),
      Field("map", TRUE, <<"arr", <<"arr", <<"tup", <<number, number>>>>>>>>),
      Field("mapOperator", TRUE, Operator),
      Field("maxBaths", TRUE, number),
      Deprecated("maxBeds", TRUE, number, "maxBedrooms"),
      Field("maxBedrooms", TRUE, number),
      Deprecated("maxBedsPlus", TRUE, number, "maxBedroomsPlus"),
      Field("maxBedroomsPlus", TRUE, number),
      Field("maxBedroomsTotal", TRUE, number),
      Field("maxKitchens", TRUE, number),
      Field("maxListDate", TRUE, DateFormat),
      Field("maxMaintenanceFee", TRUE, number),
      Field("maxOpenHouseDate", TRUE, DateFormat),
      Field("maxPrice", TRUE, number),
      Field("maxRepliersUpdatedOn", TRUE, DateFormat),
      Field("maxSoldDate", TRUE, DateFormat),
      Field("maxSoldPrice", TRUE, number),
      Field("maxStreetNumber", TRUE, number),
      Field("maxSqft", TRUE, number),
      Field("maxTaxes", TRUE, number),
      Field("maxUnavailableDate", TRUE, DateFormat),
      Field("maxUpdatedOn", TRUE, DateFormat),
      Field("maxYearBuilt", TRUE, number),
      Field("minBaths", TRUE, number),
      Deprecated("minBeds", TRUE, number, "minBedrooms"),
      Field("minBedrooms", TRUE, number),
      Deprecated("minBedsPlus", TRUE, number, "minBedroomsPlus"),
      Field("minBedroomsPlus", TRUE, number),
      Field("minBedroomsTotal", TRUE, number),
      Field("minGarageSpaces", TRUE, number),
      Field("minKitchens", TRUE, number),
      Field("minListDate", TRUE, DateFormat),
      Field("minOpenHouseDate", TRUE, DateFormat),
      Field("minParkingSpaces", TRUE, number),
      Field("minPrice", TRUE, number),
      Field("minRepliersUpdatedOn", TRUE, DateFormat),
      Field("minSoldDate", TRUE, DateFormat),
      Field("minSoldPrice", TRUE, string),
      Field("minSqft", TRUE, number),
      Field("minStreetNumber", TRUE, number),
      Field("minUnavailableDate", TRUE, DateFormat),
      Field("minUpdatedOn", TRUE, DateFormat),
      Field("minYearBuilt", TRUE, DateFormat),
      Field("mlsNumber", TRUE, <<"arr", string>>),
      Field("neighborhood", TRUE, <<"arr", string>>),
      Field("officeId", TRUE, string),
      Field("operator", TRUE, Operator),
      Field("pageNum", TRUE, number),
      Field("propertyType", TRUE, <<"arr", string>>),
      Field("radius", TRUE, number),
      Field("resultsPerPage", TRUE, number),
      Field("search", TRUE, string),
      Field("searchFields", TRUE, string),
      Field("sortBy", TRUE, SortBy),
      Field("sqft", TRUE, <<"arr", string>>),
      Field("statistics", TRUE, string),
      Field("status", TRUE, <<"arr", Status>>),
      Field("streetDirection", TRUE, <<"arr", StreetDirection>>),
      Field("streetName", TRUE, string),
      Field("streetNumber", TRUE, string),
      Field("streetSuffix", TRUE, string),
      Field("style", TRUE, <<"arr", string>>),
      Field("swimmingPool", TRUE, <<"arr", string>>),
      Field("type", TRUE, <<"arr", Type>>),
      Field("unitNumber", TRUE, <<"arr", string>>),
      Field("updatedOn", TRUE, DateFormat),
      Field("waterSource", TRUE, <<"arr", string>>),
      Field("repliersUpdatedOn", TRUE, string),
      Field("sewer", TRUE, <<"arr", string>>),
      Field("state", TRUE, string),
      Field("waterfront", TRUE, YesNo),
      Field("yearBuilt", TRUE, <<"arr", string>>),
      Field("zip", TRUE, string),
      Field("zoning", TRUE, string),
      Field("body", TRUE, <<"obj", [ extends |-> <<>>,
           index |-> <<>>,
           fields |-> <<
               Field("imageSearchItems", TRUE, <<"arr", ImageSearchItem>>) >> ]>>) >>

\* SearchRequest with maxBeds declared a string.
SearchRequestBedsRetyped ==
  [ extends |-> <<<<"ref", "ApiRequest">>>>,
    index |-> <<>>,
    fields |-> Retype(SearchRequestFields, "maxBeds", string) ]

\* SearchRequest with city declared required.
SearchRequestCityRequired ==
  [ extends |-> <<<<"ref", "ApiRequest">>>>,
    index |-> <<>>,
    fields |-> Require(SearchRequestFields, "city") ]

\* SearchRequest with minBeds not marked deprecated.
SearchRequestMinBedsCurrent ==
  [ extends |-> <<<<"ref", "ApiRequest">>>>,
    index |-> <<>>,
    fields |-> Undeprecate(SearchRequestFields, "minBeds") ]

SearchRequest ==
  [ extends |-> <<<<"ref", "ApiRequest">>>>,
    index |-> <<>>,
    fields |-> SearchRequestFields ]

BaseStat ==
  [ extends |-> <<>>,
    index |-> <<>>,
    fields |-> <<
        Field("avg", TRUE, number),
        Field("min", TRUE, number),
        Field("max", TRUE, number),
        Field("med", TRUE, number),
        Field("sd", TRUE, number),
        Field("sum", TRUE, number),
        Field("mth", TRUE, <<"rec", RangeStat>>),
        Field("yr", TRUE, <<"rec", RangeStat>>) >> ]

SearchResponse ==
  [ extends |-> <<<<"ref", "ApiResponse">>>>,
    index |-> <<>>,
    fields |-> <<
        Field("page", FALSE, number),
        Field("numPages", FALSE, number),
        Field("pageSize", FALSE, number),
        Field("count", FALSE, number),
        Field("listings", FALSE, <<"arr", <<"ref", "Listing">>>>),
        Field("statistics", FALSE, <<"obj", [ extends |-> <<>>,
             index |-> <<>>,
             fields |-> <<
                 Field("available", TRUE, <<"obj", [ extends |-> <<>>,
                      index |-> <<>>,
                      fields |-> <<
                          Field("count", FALSE, number),
                          Field("mth", FALSE, <<"rec", <<"obj", [ extends |-> <<>>,
                               index |-> <<>>,
                               fields |-> <<
                                   Field("count", FALSE, number) >> ]>>>>),
                          Field("yr", FALSE, <<"rec", <<"obj", [ extends |-> <<>>,
                               index |-> <<>>,
                               fields |-> <<
                                   Field("count", FALSE, number) >> ]>>>>) >> ]>>),
                 Field("new", TRUE, <<"obj", [ extends |-> <<>>,
                      index |-> <<>>,
                      fields |-> <<
                          Field("count", FALSE, number),
                          Field("mth", FALSE, <<"rec", <<"obj", [ extends |-> <<>>,
                               index |-> <<>>,
                               fields |-> <<
                                   Field("count", FALSE, number) >> ]>>>>),
                          Field("yr", FALSE, <<"rec", <<"obj", [ extends |-> <<>>,
                               index |-> <<>>,
                               fields |-> <<
                                   Field("count", FALSE, number) >> ]>>>>) >> ]>>),
                 Field("closed", TRUE, <<"obj", [ extends |-> <<>>,
                      index |-> <<>>,
                      fields |-> <<
                          Field("count", FALSE, number),
                          Field("mth", FALSE, <<"rec", <<"obj", [ extends |-> <<>>,
                               index |-> <<>>,
                               fields |-> <<
                                   Field("count", FALSE, number) >> ]>>>>),
                          Field("yr", FALSE, <<"rec", <<"obj", [ extends |-> <<>>,
                               index |-> <<>>,
                               fields |-> <<
                                   Field("count", FALSE, number) >> ]>>>>) >> ]>>),
                 Field("soldPrice", TRUE, <<"and", <<<<"reck", <<RollingPeriodName, <<"ref", "RollingPeriod">>>>>>, <<"ref", "BaseStat">>>>>>),
                 Field("listPrice", TRUE, <<"and", <<<<"reck", <<RollingPeriodName, <<"ref", "RollingPeriod">>>>>>, <<"ref", "BaseStat">>>>>>),
                 Field("daysOnMarket", TRUE, <<"and", <<<<"reck", <<RollingPeriodName, <<"ref", "RollingPeriod">>>>>>, <<"ref", "BaseStat">>>>>>),
                 Field("sqft", TRUE, <<"obj", [ extends |-> <<>>,
                      index |-> <<>>,
                      fields |-> <<
                          Field("avgPriceLow", FALSE, number),
                          Field("avgPriceHigh", FALSE, number),
                          Field("mth", TRUE, <<"rec", <<"obj", [ extends |-> <<>>,
                               index |-> <<>>,
                               fields |-> <<
                                   Field("avgPriceLow", FALSE, number),
                                   Field("avgPriceHigh", FALSE, number) >> ]>>>>) >> ]>>) >> ]>>) >> ]

SimilarRequest ==
  [ extends |-> <<<<"ref", "ApiRequest">>>>,
    index |-> <<>>,
    fields |-> <<
        Field("boardId", TRUE, <<"arr", number>>),
        Field("listPriceRange", TRUE, number),
        Field("radius", TRUE, number),
        Field("sortBy", TRUE, SimilarSortBy),
        Field("propertyId", FALSE, string),
        Field("fields", TRUE, string) >> ]

SimilarResponse ==
  [ extends |-> <<<<"ref", "ApiResponse">>>>,
    index |-> <<>>,
    fields |-> <<>> ]

ListingRequest ==
  [ extends |-> <<<<"ref", "ApiRequest">>>>,
    index |-> <<>>,
    fields |-> <<
        Field("mlsNumber", TRUE, string),
        Field("boardId", TRUE, number),
        Field("fields", TRUE, string) >> ]

ListingResponse ==
  [ extends |-> <<<<"ref", "ApiResponse">>, <<"ref", "Listing">>>>,
    index |-> <<>>,
    fields |-> <<>> ]

LocationsRequest ==
  [ extends |-> <<<<"ref", "ApiRequest">>>>,
    index |-> <<>>,
    fields |-> <<
        Field("area", TRUE, string),
        Field("city", TRUE, string),
        Field("neighborhood", TRUE, string),
        Field("class", FALSE, <<"arr", Class>>),
        Field("boardId", TRUE, number),
        Field("search", TRUE, string) >> ]

Location ==
  [ extends |-> <<>>,
    index |-> <<>>,
    fields |-> <<
        Field("lat", FALSE, number),
        Field("lng", FALSE, number) >> ]

Neighborhood ==
  [ extends |-> <<>>,
    index |-> <<>>,
    fields |-> <<
        Field("name", FALSE, string),
        Field("activeCount", FALSE, number),
        Field("location", FALSE, <<"ref", "Location">>),
        Field("coordinates", FALSE, <<"union", <<LocationCoordinates, null>>>>) >> ]

City ==
  [ extends |-> <<>>,
    index |-> <<>>,
    fields |-> <<
        Field("name", FALSE, string),
        Field("activeCount", FALSE, number),
        Field("location", FALSE, <<"ref", "Location">>),
        Field("coordinates", FALSE, <<"union", <<LocationCoordinates, null>>>>),
        Field("state", FALSE, string),
        Field("neighborhoods", FALSE, <<"arr", <<"ref", "Neighborhood">>>>) >> ]

\* Area declaring a count of its own.
AreaCounted ==
  [ extends |-> <<>>,
    index |-> <<>>,
    fields |-> <<
        Field("name", FALSE, string),
        Field("activeCount", FALSE, number),
        Field("cities", FALSE, <<"arr", <<"ref", "City">>>>) >> ]

Area ==
  [ extends |-> <<>>,
    index |-> <<>>,
    fields |-> <<
        Field("name", FALSE, string),
        Field("cities", FALSE, <<"arr", <<"ref", "City">>>>) >> ]

ClassWithAreas ==
  [ extends |-> <<>>,
    index |-> <<>>,
    fields |-> <<
        Field("name", FALSE, <<"param", "Name">>),
        Field("areas", FALSE, <<"arr", <<"ref", "Area">>>>) >> ]

Map ==
  [ extends |-> <<>>,
    index |-> <<>>,
    fields |-> <<
        Field("latitude", FALSE, string),
        Field("longitude", FALSE, string),
        Field("point", FALSE, string) >> ]

\* LocationsResponse with classes declared Array<ClassWithAreas<Class>>.
LocationsResponseAnyClasses ==
  [ extends |-> <<<<"ref", "ApiResponse">>>>,
    index |-> <<>>,
    fields |-> <<
        Field("boards", FALSE, <<"tup", <<<<"obj", [ extends |-> <<>>,
             index |-> <<>>,
             fields |-> <<
                 Field("boardId", FALSE, number),
                 Field("name", FALSE, string),
                 Field("updatedOn", FALSE, string),
                 Field("classes", FALSE, <<"arr", <<"app", <<"ClassWithAreas", Class>>>>>>) >> ]>>>>>>) >> ]

LocationsResponse ==
  [ extends |-> <<<<"ref", "ApiResponse">>>>,
    index |-> <<>>,
    fields |-> <<
        Field("boards", FALSE, <<"tup", <<<<"obj", [ extends |-> <<>>,
             index |-> <<>>,
             fields |-> <<
                 Field("boardId", FALSE, number),
                 Field("name", FALSE, string),
                 Field("updatedOn", FALSE, string),
                 Field("classes", FALSE, <<"tup", <<<<"app", <<"ClassWithAreas", <<"lit", "condo">>>>>>, <<"app", <<"ClassWithAreas", <<"lit", "residential">>>>>>, <<"app", <<"ClassWithAreas", <<"lit", "commercial">>>>>>>>>>) >> ]>>>>>>) >> ]

NlpRequest ==
  [ extends |-> <<<<"ref", "ApiRequest">>>>,
    index |-> <<>>,
    fields |-> <<>> ]

NlpResponse ==
  [ extends |-> <<<<"ref", "ApiResponse">>>>,
    index |-> <<>>,
    fields |-> <<
        Field("request", FALSE, <<"obj", [ extends |-> <<>>,
             index |-> <<>>,
             fields |-> <<
                 Field("url", TRUE, string),
                 Field("params", TRUE, <<"rec", string>>),
                 Field("body", FALSE, <<"rec", unknown>>),
                 Field("summary", FALSE, string) >> ]>>),
        Field("nlpId", FALSE, string) >> ]

Searches_CreateRequest ==
  [ extends |-> <<<<"ref", "ApiRequest">>>>,
    index |-> <<>>,
    fields |-> <<
        Field("clientId", FALSE, number),
        Field("name", TRUE, string),
        Field("streetNumbers", TRUE, <<"arr", string>>),
        Field("streetNames", TRUE, <<"arr", string>>),
        Field("minBeds", TRUE, number),
        Field("maxBeds", TRUE, number),
        Field("maxMaintenanceFee", TRUE, number),
        Field("minBaths", TRUE, number),
        Field("maxBaths", TRUE, number),
        Field("areas", TRUE, <<"arr", string>>),
        Field("cities", TRUE, <<"arr", string>>),
        Field("neighborhoods", TRUE, <<"arr", string>>),
        Field("notificationFrequency", TRUE, <<"union", <<<<"lit", "instant">>, <<"lit", "daily">>, <<"lit", "weekly">>, <<"lit", "monthly">>>>>>),
        Field("minPrice", FALSE, number),
        Field("maxPrice", FALSE, number),
        Field("propertyTypes", TRUE, <<"arr", string>>),
        Field("styles", TRUE, <<"arr", string>>),
        Field("map", TRUE, string),
        Field("status", TRUE, boolean),
        Field("type", FALSE, Type),
        Field("class", TRUE, <<"arr", Class>>),
        Field("minGarageSpaces", TRUE, number),
        Field("minKitchens", TRUE, number),
        Field("minParkingSpaces", TRUE, number),
        Field("basement", TRUE, <<"arr", string>>),
        Field("soldNotifications", TRUE, boolean),
        Field("priceChangeNotifications", TRUE, boolean),
        Field("sewer", TRUE, <<"arr", string>>),
        Field("waterSource", TRUE, <<"arr", string>>),
        Field("heating", TRUE, <<"arr", string>>),
        Field("swimmingPool", TRUE, <<"arr", string>>) >> ]

Searches_CreateResponse ==
  [ extends |-> <<<<"ref", "ApiResponse">>, <<"omit", <<<<"ref", "Searches.CreateRequest">>, <<"class">>>>>>>>,
    index |-> <<>>,
    fields |-> <<
        Field("searchId", FALSE, number),
        Field("agentId", FALSE, number),
        Field("client", FALSE, <<"pick", <<<<"ref", "Clients.Client">>, <<"fname", "lname", "email", "phone">>>>>>) >> ]

Searches_UpdateRequest ==
  [ extends |-> <<<<"ref", "ApiRequest">>>>,
    index |-> <<>>,
    fields |-> <<
        Field("searchId", FALSE, number) >> ]

Searches_UpdateResponse ==
  [ extends |-> <<<<"ref", "ApiResponse">>>>,
    index |-> <<>>,
    fields |-> <<>> ]

Searches_FilterRequest ==
  [ extends |-> <<<<"ref", "ApiRequest">>>>,
    index |-> <<>>,
    fields |-> <<
        Field("clientId", FALSE, number) >> ]

Searches_FilterResponse ==
  [ extends |-> <<<<"ref", "ApiResponse">>>>,
    index |-> <<>>,
    fields |-> <<
        Field("page", FALSE, number),
        Field("numPages", FALSE, number),
        Field("pageSize", FALSE, number),
        Field("count", FALSE, number),
        Field("searches", FALSE, <<"arr", <<"ref", "Searches.CreateResponse">>>>) >> ]

Searches_DeleteRequest ==
  [ extends |-> <<<<"ref", "ApiRequest">>>>,
    index |-> <<>>,
    fields |-> <<
        Field("searchId", FALSE, number) >> ]

Searches_DeleteResponse ==
  [ extends |-> <<<<"ref", "ApiResponse">>>>,
    index |-> <<>>,
    fields |-> <<>> ]

Searches_GetRequest ==
  [ extends |-> <<<<"ref", "ApiRequest">>>>,
    index |-> <<>>,
    fields |-> <<
        Field("searchId", FALSE, number) >> ]

Searches_GetResponse ==
  [ extends |-> <<<<"ref", "ApiResponse">>>>,
    index |-> <<>>,
    fields |-> <<
        Field("client", FALSE, <<"rec", unknown>>) >> ]

Clients_Client ==
  [ extends |-> <<>>,
    index |-> <<>>,
    fields |-> <<
        Field("clientId", FALSE, number),
        Field("agentId", FALSE, number),
        Field("fname", FALSE, string),
        Field("lname", FALSE, string),
        Field("phone", FALSE, string),
        Field("email", FALSE, string),
        Field("proxyEmail", FALSE, string),
        Field("status", FALSE, boolean),
        Field("lastActivity", FALSE, <<"union", <<null, unknown>>>>),
        Field("tags", FALSE, string),
        Field("preferences", FALSE, <<"obj", [ extends |-> <<>>,
             index |-> <<>>,
             fields |-> <<
                 Field("email", FALSE, boolean),
                 Field("sms", FALSE, boolean),
                 Field("unsubscribe", FALSE, boolean),
                 Field("whatsapp", FALSE, boolean) >> ]>>),
        Field("expiryDate", FALSE, <<"union", <<null, unknown>>>>),
        Field("searches", TRUE, <<"and", <<<<"omit", <<<<"ref", "Searches.CreateResponse">>, <<"class">>>>>>, <<"arr", <<"obj", [ extends |-> <<>>,
             index |-> <<>>,
             fields |-> <<
                 Field("classes", TRUE, <<"arr", Class>>) >> ]>>>>>>>>),
        Field("createdOn", FALSE, string),
        Field("estimates", TRUE, <<"arr", <<"ref", "Estimate.Estimate">>>>),
        Field("externalId", FALSE, <<"union", <<string, null>>>>) >> ]

Clients_CreateRequest ==
  [ extends |-> <<<<"ref", "ApiRequest">>>>,
    index |-> <<>>,
    fields |-> <<
        Field("agentId", TRUE, number),
        Field("clientId", TRUE, number),
        Field("email", TRUE, string),
        Field("fname", TRUE, string),
        Field("lname", TRUE, string),
        Field("keywords", TRUE, string),
        Field("phone", TRUE, number),
        Field("status", TRUE, boolean),
        Field("conditions", TRUE, <<"union", <<<<"lit", "EXACT">>, <<"lit", "CONTAINS">>>>>>),
        Field("operator", TRUE, <<"union", <<<<"lit", "AND">>, <<"lit", "OR">>>>>>),
        Field("pageNum", TRUE, number),
        Field("resultsPerPage", TRUE, number),
        Field("tags", TRUE, <<"arr", string>>),
        Field("showSavedSearches", TRUE, boolean),
        Field("externalId", TRUE, string) >> ]

Clients_CreateResponse ==
  [ extends |-> <<<<"ref", "ApiResponse">>, <<"ref", "Clients.Client">>>>,
    index |-> <<>>,
    fields |-> <<>> ]

Clients_UpdateRequest ==
  [ extends |-> <<<<"ref", "Clients.CreateRequest">>, <<"ref", "ApiRequest">>>>,
    index |-> <<>>,
    fields |-> <<
        Field("clientId", FALSE, number) >> ]

Clients_UpdateResponse ==
  [ extends |-> <<<<"ref", "ApiResponse">>, <<"ref", "Clients.Client">>>>,
    index |-> <<>>,
    fields |-> <<>> ]

Clients_DeleteResponse ==
  [ extends |-> <<<<"ref", "ApiResponse">>>>,
    index |-> <<>>,
    fields |-> <<>> ]

Clients_GetResponse ==
  [ extends |-> <<<<"ref", "ApiResponse">>, <<"ref", "Clients.Client">>>>,
    index |-> <<>>,
    fields |-> <<>> ]

Clients_FilterRequest ==
  [ extends |-> <<<<"ref", "ApiRequest">>>>,
    index |-> <<>>,
    fields |-> <<
        Field("agentId", TRUE, number),
        Field("clientId", TRUE, number),
        Field("email", FALSE, <<"union", <<string, undefined>>>>),
        Field("fname", TRUE, string),
        Field("keywords", TRUE, string),
        Field("lname", TRUE, string),
        Field("phone", TRUE, <<"union", <<string, undefined>>>>),
        Field("status", TRUE, boolean),
        Field("condition", TRUE, <<"union", <<<<"lit", "EXACT">>, <<"lit", "CONTAINS">>>>>>),
        Field("operator", TRUE, Operator),
        Field("pageNum", TRUE, number),
        Field("resultsPerPage", TRUE, number),
        Field("tags", TRUE, string) >> ]

Clients_FilterResponse ==
  [ extends |-> <<<<"ref", "ApiResponse">>>>,
    index |-> <<>>,
    fields |-> <<
        Field("page", FALSE, number),
        Field("numPages", FALSE, number),
        Field("pageSize", FALSE, number),
        Field("count", FALSE, number),
        Field("clients", FALSE, <<"arr", <<"ref", "Clients.Client">>>>) >> ]

Clients_GetTagsResponse ==
  [ extends |-> <<<<"ref", "ApiResponse">>>>,
    index |-> <<>>,
    fields |-> <<>> ]

Clients_RenameTagRequest ==
  [ extends |-> <<<<"ref", "ApiRequest">>>>,
    index |-> <<>>,
    fields |-> <<
        Field("tag", FALSE, string),
        Field("label", FALSE, string) >> ]

Clients_RenameTagResponse ==
  [ extends |-> <<<<"ref", "ApiResponse">>>>,
    index |-> <<>>,
    fields |-> <<>> ]

Estimate_Estimate ==
  [ extends |-> <<>>,
    index |-> <<>>,
    fields |-> <<
        Field("estimateId", FALSE, number),
        Field("clientId", TRUE, number),
        Field("createdOn", FALSE, string),
        Field("updatedOn", FALSE, <<"union", <<string, null>>>>),
        Field("estimate", FALSE, number),
        Field("estimateHigh", FALSE, number),
        Field("estimateLow", FALSE, number),
        Field("confidence", FALSE, number),
        Field("payload", FALSE, <<"obj", [ extends |-> <<>>,
             index |-> <<unknown>>,
             fields |-> <<
                 Field("address", FALSE, <<"obj", [ extends |-> <<>>,
                      index |-> <<>>,
                      fields |-> <<
                          Field("city", FALSE, string),
                          Field("streetName", FALSE, string),
                          Field("streetNumber", FALSE, string),
                          Field("streetSuffix", FALSE, string),
                          Field("zip", FALSE, string) >> ]>>),
                 Field("details", FALSE, <<"rec", unknown>>),
                 Field("taxes", FALSE, <<"obj", [ extends |-> <<>>,
                      index |-> <<>>,
                      fields |-> <<
                          Field("annualAmount", FALSE, number) >> ]>>),
                 Field("map", FALSE, <<"obj", [ extends |-> <<>>,
                      index |-> <<>>,
                      fields |-> <<
                          Field("latitude", FALSE, number),
                          Field("longitude", FALSE, number) >> ]>>),
                 Field("condominium", FALSE, <<"rec", unknown>>),
                 Field("lot", FALSE, <<"obj", [ extends |-> <<>>,
                      index |-> <<>>,
                      fields |-> <<
                          Field("acres", FALSE, string),
                          Field("depth", FALSE, string),
                          Field("width", FALSE, string) >> ]>>) >> ]>>),
        Field("history", TRUE, <<"obj", [ extends |-> <<>>,
             index |-> <<>>,
             fields |-> <<
                 Field("mth", FALSE, <<"rec", <<"obj", [ extends |-> <<>>,
                      index |-> <<>>,
                      fields |-> <<
                          Field("value", FALSE, number) >> ]>>>>) >> ]>>),
        Field("sendEmailMonthly", TRUE, boolean) >> ]

Estimate_AddCondominium ==
  [ extends |-> <<>>,
    index |-> <<>>,
    fields |-> <<
        Field("ammenities", TRUE, <<"arr", string>>),
        Field("exposure", TRUE, string),
        Field("fees", TRUE, <<"obj", [ extends |-> <<>>,
             index |-> <<>>,
             fields |-> <<
                 Field("cableIncl", TRUE, YesNo),
                 Field("heatIncl", TRUE, YesNo),
                 Field("hydroIncl", TRUE, YesNo),
                 Field("maintenance", TRUE, number),
                 Field("parkingIncl", TRUE, YesNo),
                 Field("taxesIncl", TRUE, YesNo),
                 Field("waterIncl", TRUE, YesNo) >> ]>>),
        Field("parkingType", TRUE, string),
        Field("pets", TRUE, <<"union", <<<<"lit", "N">>, <<"lit", "Restrict">>>>>>),
        Field("stories", TRUE, number) >> ]

Estimate_AddRequest ==
  [ extends |-> <<<<"ref", "ApiRequest">>>>,
    index |-> <<>>,
    fields |-> <<
        Field("clientId", TRUE, number),
        Field("boardId", TRUE, number),
        Field("address", TRUE, <<"obj", [ extends |-> <<>>,
             index |-> <<>>,
             fields |-> <<
                 Field("city", FALSE, string),
                 Field("streetName", FALSE, string),
                 Field("streetNumber", FALSE, string),
                 Field("streetSuffix", FALSE, string),
                 Field("unitNumber", TRUE, string),
                 Field("zip", FALSE, string) >> ]>>),
        Field("condominium", TRUE, <<"ref", "Estimate.AddCondominium">>),
        Field("details", TRUE, <<"obj", [ extends |-> <<>>,
             index |-> <<>>,
             fields |-> <<
                 Field("basement1", TRUE, string),
                 Field("basement2", TRUE, string),
                 Field("driveway", TRUE, string),
                 Field("exteriorConstruction1", TRUE, string),
                 Field("exteriorConstruction2", TRUE, string),
                 Field("extras", FALSE, string),
                 Field("garage", TRUE, string),
                 Field("heating", TRUE, string),
                 Field("numBathrooms", FALSE, number),
                 Field("numBathroomsPlus", TRUE, number),
                 Field("numBedrooms", FALSE, number),
                 Field("numBedroomsPlus", TRUE, number),
                 Field("numFireplaces", TRUE, YesNo),
                 Field("numGarageSpaces", TRUE, number),
                 Field("numParkingSpaces", TRUE, number),
                 Field("propertyType", FALSE, string),
                 Field("sqft", FALSE, number),
                 Field("style", FALSE, string),
                 Field("swimmingPool", TRUE, string),
                 Field("yearBuilt", TRUE, string) >> ]>>),
        Field("lot", TRUE, <<"obj", [ extends |-> <<>>,
             index |-> <<>>,
             fields |-> <<
                 Field("acres", TRUE, string),
                 Field("depth", TRUE, number),
                 Field("width", TRUE, number) >> ]>>),
        Field("sendEmailNow", TRUE, boolean),
        Field("sendEmailMonthly", TRUE, boolean),
        Field("taxes", TRUE, <<"obj", [ extends |-> <<>>,
             index |-> <<>>,
             fields |-> <<
                 Field("annualAmount", FALSE, number) >> ]>>) >> ]

Estimate_AddResponse ==
  [ extends |-> <<<<"ref", "ApiResponse">>>>,
    index |-> <<>>,
    fields |-> <<
        Field("estimate", FALSE, number),
        Field("estimateLow", FALSE, number),
        Field("estimateHigh", FALSE, number),
        Field("confidence", FALSE, number),
        Field("request", TRUE, <<"ref", "Estimate.AddRequest">>),
        Field("payload", TRUE, <<"ref", "Estimate.AddRequest">>),
        Field("history", TRUE, <<"obj", [ extends |-> <<>>,
             index |-> <<>>,
             fields |-> <<
                 Field("mth", FALSE, <<"rec", <<"obj", [ extends |-> <<>>,
                      index |-> <<>>,
                      fields |-> <<
                          Field("value", FALSE, number) >> ]>>>>) >> ]>>) >> ]

Estimate_GetRequest ==
  [ extends |-> <<<<"ref", "ApiRequest">>>>,
    index |-> <<>>,
    fields |-> <<
        Field("clientId", TRUE, number),
        Field("estimateId", TRUE, number),
        Field("pageNum", TRUE, number),
        Field("resultsPerPage", TRUE, number) >> ]

Estimate_GetResponse ==
  [ extends |-> <<<<"ref", "ApiRequest">>>>,
    index |-> <<>>,
    fields |-> <<
        Field("page", FALSE, number),
        Field("numPages", FALSE, number),
        Field("pageSize", FALSE, number),
        Field("count", FALSE, number),
        Field("estimates", FALSE, <<"arr", <<"ref", "Estimate.Estimate">>>>) >> ]

Estimate_DeleteRequest ==
  [ extends |-> <<<<"ref", "ApiRequest">>>>,
    index |-> <<>>,
    fields |-> <<
        Field("estimateId", FALSE, number) >> ]

Estimate_DeleteResponse ==
  [ extends |-> <<<<"ref", "ApiRequest">>>>,
    index |-> <<>>,
    fields |-> <<
        Field("estimateId", FALSE, number) >> ]

Estimate_PatchRequest ==
  [ extends |-> <<<<"omit", <<<<"ref", "Estimate.AddRequest">>, <<"boardId">>>>>>>>,
    index |-> <<>>,
    fields |-> <<
        Field("estimateId", FALSE, number) >> ]

Estimate_PatchResponse ==
  [ extends |-> <<<<"ref", "Estimate.GetResponse">>>>,
    index |-> <<>>,
    fields |-> <<>> ]

Favorites_AddRequest ==
  [ extends |-> <<<<"ref", "ApiRequest">>>>,
    index |-> <<>>,
    fields |-> <<
        Field("clientId", FALSE, number),
        Field("mlsNumber", FALSE, string),
        Field("boardId", TRUE, number) >> ]

Favorites_AddResponse ==
  [ extends |-> <<<<"ref", "ApiResponse">>>>,
    index |-> <<>>,
    fields |-> <<>> ]

Favorites_DeleteRequest ==
  [ extends |-> <<<<"ref", "ApiRequest">>>>,
    index |-> <<>>,
    fields |-> <<
        Field("favoriteId", FALSE, number) >> ]

Favorites_DeleteResponse ==
  [ extends |-> <<<<"ref", "ApiResponse">>>>,
    index |-> <<>>,
    fields |-> <<>> ]

Favorites_GetRequest ==
  [ extends |-> <<<<"ref", "ApiRequest">>>>,
    index |-> <<>>,
    fields |-> <<
        Field("clientId", FALSE, number) >> ]

\* Favorites.GetResponse with count declared `count?: number`.
Favorites_GetResponseCountOptional ==
  [ extends |-> <<<<"ref", "ApiResponse">>>>,
    index |-> <<>>,
    fields |-> <<
        Field("page", FALSE, number),
        Field("numPages", FALSE, number),
        Field("pageSize", FALSE, number),
        Field("count", TRUE, number),
        Field("favorites", FALSE, <<"arr", <<"obj", [ extends |-> <<>>,
             index |-> <<unknown>>,
             fields |-> <<
                 Field("favoriteId", FALSE, number) >> ]>>>>) >> ]

Favorites_GetResponse ==
  [ extends |-> <<<<"ref", "ApiResponse">>>>,
    index |-> <<>>,
    fields |-> <<
        Field("page", FALSE, number),
        Field("numPages", FALSE, number),
        Field("pageSize", FALSE, number),
        Field("count", FALSE, number),
        Field("favorites", FALSE, <<"arr", <<"obj", [ extends |-> <<>>,
             index |-> <<unknown>>,
             fields |-> <<
                 Field("favoriteId", FALSE, number) >> ]>>>>) >> ]

Messages_SendRequest ==
  [ extends |-> <<<<"ref", "ApiRequest">>>>,
    index |-> <<>>,
    fields |-> <<
        Field("sender", FALSE, <<"union", <<<<"lit", "agent">>, <<"lit", "client">>>>>>),
        Field("agentId", FALSE, number),
        Field("clientId", FALSE, number),
        Field("content", FALSE, <<"partial", <<"obj", [ extends |-> <<>>,
             index |-> <<>>,
             fields |-> <<
                 Field("listings", FALSE, <<"arr", string>>),
                 Field("searches", FALSE, <<"arr", number>>),
                 Field("message", FALSE, string),
                 Field("links", FALSE, <<"arr", string>>),
                 Field("pictures", FALSE, <<"arr", string>>) >> ]>>>>) >> ]

Messages_SendResponse ==
  [ extends |-> <<<<"ref", "ApiResponse">>>>,
    index |-> <<>>,
    fields |-> <<>> ]

\* The catalog: every interface by its (group-qualified) name.
ShapeNames ==
  {"ApiRequest", "ApiResponse", "ApiRequestBody",
     "Room", "Bathroom", "Timestamp",
     "Condominium", "OpenHouse", "Details",
     "Address", "Listing", "RollingPeriod",
     "ImageSearchItemBase", "ImageSearchValue", "ImageSearchUrl",
     "SearchRequest", "BaseStat", "SearchResponse",
     "SimilarRequest", "SimilarResponse", "ListingRequest",
     "ListingResponse", "LocationsRequest", "Location",
     "Neighborhood", "City", "Area",
     "ClassWithAreas", "Map", "LocationsResponse",
     "NlpRequest", "NlpResponse", "Searches.CreateRequest",
     "Searches.CreateResponse", "Searches.UpdateRequest", "Searches.UpdateResponse",
     "Searches.FilterRequest", "Searches.FilterResponse", "Searches.DeleteRequest",
     "Searches.DeleteResponse", "Searches.GetRequest", "Searches.GetResponse",
     "Clients.Client", "Clients.CreateRequest", "Clients.CreateResponse",
     "Clients.UpdateRequest", "Clients.UpdateResponse", "Clients.DeleteResponse",
     "Clients.GetResponse", "Clients.FilterRequest", "Clients.FilterResponse",
     "Clients.GetTagsResponse", "Clients.RenameTagRequest", "Clients.RenameTagResponse",
     "Estimate.Estimate", "Estimate.AddCondominium", "Estimate.AddRequest",
     "Estimate.AddResponse", "Estimate.GetRequest", "Estimate.GetResponse",
     "Estimate.DeleteRequest", "Estimate.DeleteResponse", "Estimate.PatchRequest",
     "Estimate.PatchResponse", "Favorites.AddRequest", "Favorites.AddResponse",
     "Favorites.DeleteRequest", "Favorites.DeleteResponse", "Favorites.GetRequest",
     "Favorites.GetResponse", "Messages.SendRequest", "Messages.SendResponse" }

Shape(n) ==
  CASE n = "ApiRequest" -> ApiRequest
    [] n = "ApiResponse" -> ApiResponse
    [] n = "ApiRequestBody" -> ApiRequestBody
    [] n = "Room" -> Room
    [] n = "Bathroom" -> Bathroom
    [] n = "Timestamp" -> Timestamp
    [] n = "Condominium" -> Condominium
    [] n = "OpenHouse" -> OpenHouse
    [] n = "Details" -> Details
    [] n = "Address" -> Address
    [] n = "Listing" -> Listing
    [] n = "RollingPeriod" -> RollingPeriod
    [] n = "ImageSearchItemBase" -> ImageSearchItemBase
    [] n = "ImageSearchValue" -> ImageSearchValue
    [] n = "ImageSearchUrl" -> ImageSearchUrl
    [] n = "SearchRequest" -> SearchRequest
    [] n = "BaseStat" -> BaseStat
    [] n = "SearchResponse" -> SearchResponse
    [] n = "SimilarRequest" -> SimilarRequest
    [] n = "SimilarResponse" -> SimilarResponse
    [] n = "ListingRequest" -> ListingRequest
    [] n = "ListingResponse" -> ListingResponse
    [] n = "LocationsRequest" -> LocationsRequest
    [] n = "Location" -> Location
    [] n = "Neighborhood" -> Neighborhood
    [] n = "City" -> City
    [] n = "Area" -> Area
    [] n = "ClassWithAreas" -> ClassWithAreas
    [] n = "Map" -> Map
    [] n = "LocationsResponse" -> LocationsResponse
    [] n = "NlpRequest" -> NlpRequest
    [] n = "NlpResponse" -> NlpResponse
    [] n = "Searches.CreateRequest" -> Searches_CreateRequest
    [] n = "Searches.CreateResponse" -> Searches_CreateResponse
    [] n = "Searches.UpdateRequest" -> Searches_UpdateRequest
    [] n = "Searches.UpdateResponse" -> Searches_UpdateResponse
    [] n = "Searches.FilterRequest" -> Searches_FilterRequest
    [] n = "Searches.FilterResponse" -> Searches_FilterResponse
    [] n = "Searches.DeleteRequest" -> Searches_DeleteRequest
    [] n = "Searches.DeleteResponse" -> Searches_DeleteResponse
    [] n = "Searches.GetRequest" -> Searches_GetRequest
    [] n = "Searches.GetResponse" -> Searches_GetResponse
    [] n = "Clients.Client" -> Clients_Client
    [] n = "Clients.CreateRequest" -> Clients_CreateRequest
    [] n = "Clients.CreateResponse" -> Clients_CreateResponse
    [] n = "Clients.UpdateRequest" -> Clients_UpdateRequest
    [] n = "Clients.UpdateResponse" -> Clients_UpdateResponse
    [] n = "Clients.DeleteResponse" -> Clients_DeleteResponse
    [] n = "Clients.GetResponse" -> Clients_GetResponse
    [] n = "Clients.FilterRequest" -> Clients_FilterRequest
    [] n = "Clients.FilterResponse" -> Clients_FilterResponse
    [] n = "Clients.GetTagsResponse" -> Clients_GetTagsResponse
    [] n = "Clients.RenameTagRequest" -> Clients_RenameTagRequest
    [] n = "Clients.RenameTagResponse" -> Clients_RenameTagResponse
    [] n = "Estimate.Estimate" -> Estimate_Estimate
    [] n = "Estimate.AddCondominium" -> Estimate_AddCondominium
    [] n = "Estimate.AddRequest" -> Estimate_AddRequest
    [] n = "Estimate.AddResponse" -> Estimate_AddResponse
    [] n = "Estimate.GetRequest" -> Estimate_GetRequest
    [] n = "Estimate.GetResponse" -> Estimate_GetResponse
    [] n = "Estimate.DeleteRequest" -> Estimate_DeleteRequest
    [] n = "Estimate.DeleteResponse" -> Estimate_DeleteResponse
    [] n = "Estimate.PatchRequest" -> Estimate_PatchRequest
    [] n = "Estimate.PatchResponse" -> Estimate_PatchResponse
    [] n = "Favorites.AddRequest" -> Favorites_AddRequest
    [] n = "Favorites.AddResponse" -> Favorites_AddResponse
    [] n = "Favorites.DeleteRequest" -> Favorites_DeleteRequest
    [] n = "Favorites.DeleteResponse" -> Favorites_DeleteResponse
    [] n = "Favorites.GetRequest" -> Favorites_GetRequest
    [] n = "Favorites.GetResponse" -> Favorites_GetResponse
    [] n = "Messages.SendRequest" -> Messages_SendRequest
    [] n = "Messages.SendResponse" -> Messages_SendResponse

\* The closed value-sets by name: the runtime array and the derived type.
ValueSetNames ==
  {"Aggregates", "YesNo", "Class", "LastStatus", "Operator", "SimilarSortBy", "SortBy", "Statistics", "Status", "Type", "StreetDirection", "CoverImage"}
ValuesOf(vs) ==
  CASE vs = "Aggregates" -> AggregatesValues
    [] vs = "YesNo" -> YesNoValues
    [] vs = "Class" -> ClassValues
    [] vs = "LastStatus" -> LastStatusValues
    [] vs = "Operator" -> OperatorValues
    [] vs = "SimilarSortBy" -> SimilarSortByValues
    [] vs = "SortBy" -> SortByValues
    [] vs = "Statistics" -> StatisticsValues
    [] vs = "Status" -> StatusValues
    [] vs = "Type" -> TypeValues
    [] vs = "StreetDirection" -> StreetDirectionValues
    [] vs = "CoverImage" -> CoverImageValues
TypeOf(vs) ==
  CASE vs = "Aggregates" -> Aggregates
    [] vs = "YesNo" -> YesNo
    [] vs = "Class" -> Class
    [] vs = "LastStatus" -> LastStatus
    [] vs = "Operator" -> Operator
    [] vs = "SimilarSortBy" -> SimilarSortBy
    [] vs = "SortBy" -> SortBy
    [] vs = "Statistics" -> Statistics
    [] vs = "Status" -> Status
    [] vs = "Type" -> Type
    [] vs = "StreetDirection" -> StreetDirection
    [] vs = "CoverImage" -> CoverImage

\* The concrete interfaces named *Request and *Response, over all groups.
RequestShapes ==
  {"SearchRequest", "SimilarRequest", "ListingRequest",
     "LocationsRequest", "NlpRequest", "Searches.CreateRequest",
     "Searches.UpdateRequest", "Searches.FilterRequest", "Searches.DeleteRequest",
     "Searches.GetRequest", "Clients.CreateRequest", "Clients.UpdateRequest",
     "Clients.FilterRequest", "Clients.RenameTagRequest", "Estimate.AddRequest",
     "Estimate.GetRequest", "Estimate.DeleteRequest", "Estimate.PatchRequest",
     "Favorites.AddRequest", "Favorites.DeleteRequest", "Favorites.GetRequest",
     "Messages.SendRequest" }
ResponseShapes ==
  {"SearchResponse", "SimilarResponse", "ListingResponse",
     "LocationsResponse", "NlpResponse", "Searches.CreateResponse",
     "Searches.UpdateResponse", "Searches.FilterResponse", "Searches.DeleteResponse",
     "Searches.GetResponse", "Clients.CreateResponse", "Clients.UpdateResponse",
     "Clients.DeleteResponse", "Clients.GetResponse", "Clients.FilterResponse",
     "Clients.GetTagsResponse", "Clients.RenameTagResponse", "Estimate.AddResponse",
     "Estimate.GetResponse", "Estimate.DeleteResponse", "Estimate.PatchResponse",
     "Favorites.AddResponse", "Favorites.DeleteResponse", "Favorites.GetResponse",
     "Messages.SendResponse" }

\* ---- JSON values: <<kind, data>>
JNull == <<"null", "">>
JStr(s) == <<"str", s>>
JNum(n) == <<"num", n>>
JBool(b) == <<"bool", b>>
JArr(s) == <<"arr", s>>
JObj(o) == <<"obj", o>>
EmptyObj == [k \in {} |-> JNull]

\* The strings that match the template `${number}-${number}-${number}`
\* among the strings the model uses.
DateFormatStrings == {"2024-01-15"}

Range(s) == {s[i] : i \in DOMAIN s}
Names(fields) == {fields[i].name : i \in DOMAIN fields}

\* ---- the object view of a type: its index signature (none or one value
\* type) and its properties, own and inherited.
NoView == [index |-> <<>>, fields |-> <<>>]

\* Properties of `own` override the inherited ones of the same name; an
\* index signature is inherited.
Merge(base, own) ==
  LET kept(f) == f.name \notin Names(own.fields)
  IN  [index |-> IF own.index # <<>> THEN own.index ELSE base.index,
       fields |-> SelectSeq(base.fields, kept) \o own.fields]

RECURSIVE MergeAll(_)
MergeAll(views) ==
  IF views = <<>> THEN NoView
  ELSE Merge(MergeAll(SubSeq(views, 1, Len(views) - 1)), views[Len(views)])

\* Omit<T, K> = Pick<T, Exclude<keyof T, K>>: when T has a string index
\* signature keyof T is string | number, Exclude leaves it whole, and the
\* mapped type keeps the index signature alone.
OmitView(v, keys) ==
  LET kept(f) == f.name \notin keys
  IN  IF v.index # <<>> THEN [index |-> v.index, fields |-> <<>>]
      ELSE [index |-> <<>>, fields |-> SelectSeq(v.fields, kept)]

PickView(v, keys) ==
  LET kept(f) == f.name \in keys
  IN  [index |-> <<>>, fields |-> SelectSeq(v.fields, kept)]

PartialView(v) ==
  [index |-> v.index,
   fields |-> [i \in DOMAIN v.fields |-> [v.fields[i] EXCEPT !.opt = TRUE]]]

\* Record<K, T> for a union K of string literals: one required property
\* per literal.
KeyedView(K, T) ==
  [index |-> <<>>,
   fields |-> [i \in DOMAIN K[2] |-> Field(K[2][i][2], FALSE, T)]]

\* A generic interface applied to its type argument.
ApplyView(v, arg) ==
  [index |-> v.index,
   fields |-> [i \in DOMAIN v.fields |->
                 IF v.fields[i].ty[1] = "param"
                 THEN [v.fields[i] EXCEPT !.ty = arg]
                 ELSE v.fields[i]]]

RECURSIVE Resolve(_)
Resolve(T) ==
  CASE T[1] = "ref" ->
         LET s == Shape(T[2])
         IN  Merge(MergeAll([i \in DOMAIN s.extends |-> Resolve(s.extends[i])]),
                   [index |-> s.index, fields |-> s.fields])
    [] T[1] = "obj" ->
         Merge(MergeAll([i \in DOMAIN T[2].extends |-> Resolve(T[2].extends[i])]),
               [index |-> T[2].index, fields |-> T[2].fields])
    [] T[1] = "rec" -> [index |-> <<T[2]>>, fields |-> <<>>]
    [] T[1] = "reck" -> KeyedView(T[2][1], T[2][2])
    [] T[1] = "partial" -> PartialView(Resolve(T[2]))
    [] T[1] = "omit" -> OmitView(Resolve(T[2][1]), Range(T[2][2]))
    [] T[1] = "pick" -> PickView(Resolve(T[2][1]), Range(T[2][2]))
    [] T[1] = "app" -> ApplyView(Resolve(<<"ref", T[2][1]>>), T[2][2])
    [] T[1] = "and" -> MergeAll([i \in DOMAIN T[2] |-> Resolve(T[2][i])])
    [] OTHER -> NoView

\* The resolved view of every interface of the catalog.
ViewOf == [n \in ShapeNames |-> Resolve(<<"ref", n>>)]

View(T) == IF T[1] = "ref" THEN ViewOf[T[2]] ELSE Resolve(T)

IsObjectType(T) ==
  T[1] \in {"ref", "obj", "rec", "reck", "partial", "omit", "pick", "app", "and"}

\* ---- assignability of a JSON value to a type.  A value has an
\* intersection of object types when it conforms to their merged view; it
\* has an intersection with a type that is no object type (an array type)
\* when it has every member of the intersection.
RECURSIVE HasType(_, _), Conforms(_, _)
HasType(v, T) ==
  CASE T[1] = "prim" ->
         CASE T[2] = "string" -> v[1] = "str"
           [] T[2] = "number" -> v[1] = "num"
           [] T[2] = "boolean" -> v[1] = "bool"
           [] T[2] = "null" -> v[1] = "null"
           [] T[2] = "unknown" -> TRUE
           [] OTHER -> FALSE
    [] T[1] = "lit" -> v[1] = "str" /\ v[2] = T[2]
    [] T[1] = "tmpl" -> v[1] = "str" /\ v[2] \in DateFormatStrings
    [] T[1] = "union" -> \E i \in DOMAIN T[2] : HasType(v, T[2][i])
    [] T[1] = "arr" ->
         v[1] = "arr" /\ \A i \in DOMAIN v[2] : HasType(v[2][i], T[2])
    [] T[1] = "tup" ->
         /\ v[1] = "arr"
         /\ Len(v[2]) = Len(T[2])
         /\ \A i \in DOMAIN v[2] : HasType(v[2][i], T[2][i])
    [] T[1] = "and" ->
         IF \A i \in DOMAIN T[2] : IsObjectType(T[2][i])
         THEN v[1] = "obj" /\ Conforms(v[2], View(T))
         ELSE \A i \in DOMAIN T[2] : HasType(v, T[2][i])
    [] OTHER -> IsObjectType(T) /\ v[1] = "obj" /\ Conforms(v[2], View(T))

\* An object literal against an object view: every declared property that
\* is present has its declared type, every required property is present,
\* and a property that is not declared is admitted by an index signature
\* only (the excess property check).
Conforms(obj, view) ==
  /\ \A i \in DOMAIN view.fields :
       LET f == view.fields[i]
       IN  IF f.name \in DOMAIN obj THEN HasType(obj[f.name], f.ty) ELSE f.opt
  /\ \A k \in DOMAIN obj :
       \/ k \in Names(view.fields)
       \/ view.index # <<>> /\ HasType(obj[k], view.index[1])

Fields(n) == ViewOf[n].fields
FieldNames(n) == Names(Fields(n))
FieldOf(n, name) ==
  LET fs == Fields(n)
  IN  fs[CHOOSE i \in DOMAIN fs : fs[i].name = name]

\* A shape is open (extensible) when it declares or inherits an index
\* signature.
IsOpen(n) == ViewOf[n].index # <<>>

Accepts(n, obj) == Conforms(obj, ViewOf[n])

\* ---- runtime membership in a value-set array: XValues.includes(s)
Includes(arr, s) == \E i \in 1..Len(arr) : arr[i] = s

\* ---- the envelope markers
MarkerNames == {"ApiRequest", "ApiResponse", "ApiRequestBody"}

RECURSIVE Bases(_)
\* Every interface a type is built on, itself included.
Bases(T) ==
  CASE T[1] = "ref" ->
         {T[2]} \cup UNION {Bases(Shape(T[2]).extends[i]) :
                              i \in DOMAIN Shape(T[2]).extends}
    [] T[1] \in {"omit", "pick"} -> Bases(T[2][1])
    [] T[1] = "partial" -> Bases(T[2])
    [] T[1] = "and" -> UNION {Bases(T[2][i]) : i \in DOMAIN T[2]}
    [] OTHER -> {}

MarkersOf(n) == Bases(<<"ref", n>>) \cap MarkerNames

\* ---- the codec of a consumer: known fields plus a sidecar of the
\* unrecognised members, merged back on encoding
Absent == <<"absent", "">>
NoTyped == [ok |-> FALSE, known |-> EmptyObj, extra |-> EmptyObj]

\* Decoding a JSON object as shape n: refused when the object is not
\* assignable to n; otherwise one slot per declared field (Absent when the
\* member is missing, the member's value, null included, otherwise) and
\* the members n does not declare in the sidecar.
Decode(n, obj) ==
  IF ~Accepts(n, obj) THEN NoTyped
  ELSE [ok |-> TRUE,
        known |-> [k \in FieldNames(n) |->
                     IF k \in DOMAIN obj THEN obj[k] ELSE Absent],
        extra |-> [k \in DOMAIN obj \ FieldNames(n) |-> obj[k]]]

\* Encoding: every slot that is not Absent, then the sidecar.
Encode(t) ==
  LET present == {k \in DOMAIN t.known : t.known[k] # Absent}
  IN  [k \in present \cup DOMAIN t.extra |->
         IF k \in present THEN t.known[k] ELSE t.extra[k]]

\* Reading a declared or undeclared field of a decoded value.
Read(t, k) ==
  IF k \in DOMAIN t.known THEN t.known[k]
  ELSE IF k \in DOMAIN t.extra THEN t.extra[k]
  ELSE Absent

\* The state of a member of a JSON object: absent, null or a value.
StateOf(obj, k) ==
  IF k \notin DOMAIN obj THEN "absent"
  ELSE IF obj[k] = JNull THEN "null"
  ELSE "value"

\* ---- inputs
\* Strings a payload may carry: members of the value-sets, near misses and
\* free text.
SampleStrings ==
  {"A", "Y", "condo", "sale", "Sld", "createdOnDesc", "cnt-new", "class",
   "", "med-soldPrice,avg-soldPrice,grp-yr", "bogus", "2024-01-15",
   "EXACT", "CONTAINS", "AND", "OR", "and"}

\* Further strings for the value-set checks alone.
NearMisses == {"a", "details.numBedrooms", "Condo", "and", "Toronto"}

\* Every string the value-set checks are run on.
AllLiterals == UNION {Range(ValuesOf(v)) : v \in ValueSetNames}
Strings == AllLiterals \cup SampleStrings \cup NearMisses

ArrayElems ==
  {JStr("A"), JStr("condo"), JStr("sale"), JStr("Sld"), JStr("class"),
   JStr("bogus"), JNum(3), JNull, JObj(EmptyObj)}
SampleArrays ==
  {JArr(s) : s \in UNION {[1..k -> ArrayElems] : k \in 0..MaxArrayLen}}

SampleObjects ==
  {JObj(EmptyObj),
   JObj([k \in {"city", "state"} |->
           IF k = "city" THEN JStr("Toronto") ELSE JStr("ON")]),
   JObj([k \in {"cableIncl"} |-> JStr("Y")]),
   JObj([k \in {"cableIncl"} |-> JStr("bogus")]),
   JObj([k \in {"cableIncl"} |-> JNull]),
   JObj([k \in {"providerField"} |-> JStr("x")]),
   JObj([k \in {"1"} |-> JObj(EmptyObj)])}

Samples ==
  {JNull, JNum(3), JNum(500000), JBool(TRUE), JBool(FALSE)}
    \cup {JStr(s) : s \in SampleStrings}
    \cup SampleArrays \cup SampleObjects

\* Field names no shape declares.
UnknownNames == {"providerField", "x-extra"}

\* The payloads of the repository's scenarios (TODO plan, API tests):
\* test_create_listing, test_search_listings and a SearchResponse page.
ListingScenario ==
  [k \in {"mlsNumber", "status", "class", "type", "listPrice", "address"} |->
     CASE k = "mlsNumber" -> JStr("TEST123")
       [] k = "status" -> JStr("A")
       [] k = "class" -> JStr("residential")
       [] k = "type" -> JStr("sale")
       [] k = "listPrice" -> JStr("599000")
       [] k = "address" ->
            JObj([a \in {"city", "state"} |->
                    IF a = "city" THEN JStr("Toronto") ELSE JStr("ON")])]

SearchScenario ==
  [k \in {"city", "minPrice", "maxPrice", "status"} |->
     CASE k = "city" -> JArr(<<JStr("Toronto")>>)
       [] k = "minPrice" -> JNum(500000)
       [] k = "maxPrice" -> JNum(1000000)
       [] k = "status" -> JArr(<<JStr("A")>>)]

ResponseScenario ==
  [k \in {"page", "numPages", "pageSize", "count", "listings", "statistics"} |->
     CASE k = "page" -> JNum(1)
       [] k = "numPages" -> JNum(1)
       [] k = "pageSize" -> JNum(25)
       [] k = "count" -> JNum(1)
       [] k = "listings" -> JArr(<<JObj(ListingScenario)>>)
       [] k = "statistics" -> JObj(EmptyObj)]

\* A Details record and a Map position as a provider sends them.
DetailsScenario ==
  [k \in {"numBedrooms", "den"} |->
     IF k = "den" THEN JStr("Y") ELSE JStr("3")]

MapScenario ==
  [k \in {"latitude", "longitude", "point"} |->
     CASE k = "latitude" -> JStr("43.65")
       [] k = "longitude" -> JStr("-79.38")
       [] k = "point" -> JStr("POINT (-79.38 43.65)")]

\* An estimate request with the members AddRequest's address and details
\* declare without `?`.
EstimateAddress ==
  [k \in {"city", "streetName", "streetNumber", "streetSuffix", "zip"} |->
     CASE k = "city" -> JStr("Toronto")
       [] k = "streetName" -> JStr("King")
       [] k = "streetNumber" -> JStr("1")
       [] k = "streetSuffix" -> JStr("St")
       [] k = "zip" -> JStr("M5H 1A1")]

EstimateDetails ==
  [k \in {"extras", "numBathrooms", "numBedrooms", "propertyType", "sqft",
          "style"} |->
     CASE k = "extras" -> JStr("")
       [] k = "numBathrooms" -> JNum(2)
       [] k = "numBedrooms" -> JNum(3)
       [] k = "propertyType" -> JStr("Detached")
       [] k = "sqft" -> JNum(1500)
       [] k = "style" -> JStr("2-Storey")]

\* A saved search as it is created (the members CreateRequest declares
\* without `?`) and as it is returned.
SavedSearchRequest ==
  [k \in {"clientId", "minPrice", "maxPrice", "type"} |->
     CASE k = "clientId" -> JNum(3)
       [] k = "minPrice" -> JNum(500000)
       [] k = "maxPrice" -> JNum(1000000)
       [] k = "type" -> JStr("sale")]

SavedSearchResponse ==
  [k \in {"searchId", "agentId", "client"} |->
     CASE k = "searchId" -> JNum(3)
       [] k = "agentId" -> JNum(3)
       [] k = "client" ->
            JObj([c \in {"fname", "lname", "email", "phone"} |-> JStr("")])]

Restrict(obj, ks) == [k \in ks |-> obj[k]]
With(obj, k, v) ==
  [x \in DOMAIN obj \cup {k} |-> IF x = k THEN v ELSE obj[x]]

\* The estimate requests: address and details, whole or with one member
\* of either left out, with or without an estimateId.
EstimateScenarios ==
  LET addresses == {JObj(EstimateAddress)} \cup
        {JObj(Restrict(EstimateAddress, DOMAIN EstimateAddress \ {k})) :
           k \in DOMAIN EstimateAddress}
      details == {JObj(EstimateDetails)} \cup
        {JObj(Restrict(EstimateDetails, DOMAIN EstimateDetails \ {k})) :
           k \in DOMAIN EstimateDetails}
      both == {[k \in {"address", "details"} |->
                  IF k = "address" THEN a ELSE d] :
                 a \in addresses, d \in details}
      parts == UNION {{b, Restrict(b, {"address"}), Restrict(b, {"details"})} :
                        b \in both}
  IN  parts \cup {[k \in DOMAIN b \cup {"estimateId"} |->
                     IF k = "estimateId" THEN JNum(7) ELSE b[k]] :
                    b \in parts \cup {EmptyObj}}
SubObjects(obj) == {Restrict(obj, ks) : ks \in SUBSET DOMAIN obj}

\* ---- the locations hierarchy: boards > classes > areas > cities >
\* neighborhoods
Drop(obj, k) == Restrict(obj, DOMAIN obj \ {k})

Polygon == JArr(<<JArr(<<JArr(<<JNum(43), JNum(79)>>)>>)>>)
LatLng == JObj([lat |-> JNum(43), lng |-> JNum(79)])

NeighborhoodEntry ==
  [name |-> JStr("Toronto"), activeCount |-> JNum(3), location |-> LatLng,
   coordinates |-> JNull]

\* A neighborhood or a city as sent, and with the polygon set, the
\* polygon left out, the count left out.
Variants(entry) ==
  {entry, With(entry, "coordinates", Polygon), Drop(entry, "coordinates"),
   Drop(entry, "activeCount")}

CityEntry(nbhd) ==
  [name |-> JStr("Toronto"), activeCount |-> JNum(3), location |-> LatLng,
   coordinates |-> JNull, state |-> JStr("ON"),
   neighborhoods |-> JArr(<<JObj(nbhd)>>)]

CityEntries ==
  {CityEntry(n) : n \in Variants(NeighborhoodEntry)}
    \cup Variants(CityEntry(NeighborhoodEntry))
    \cup {Drop(CityEntry(NeighborhoodEntry), "neighborhoods")}

AreaEntry(city) == [name |-> JStr("Toronto"), cities |-> JArr(<<JObj(city)>>)]

AreaEntries ==
  {AreaEntry(c) : c \in CityEntries}
    \cup {Drop(AreaEntry(CityEntry(NeighborhoodEntry)), "cities"),
          With(AreaEntry(CityEntry(NeighborhoodEntry)), "activeCount", JNum(3)),
          With(AreaEntry(CityEntry(NeighborhoodEntry)), "coordinates", JNull)}

ClassEntry(name, areas) == [name |-> JStr(name), areas |-> JArr(areas)]

\* The class names a provider may send, and the longest list of classes.
ClassNames == Range(ClassValues) \cup {"land"}
MaxClasses == 4

BoardWith(classes) ==
  [boards |-> JArr(<<JObj([boardId |-> JNum(1), name |-> JStr("Toronto"),
                           updatedOn |-> JStr("2024-01-15"),
                           classes |-> JArr(classes)])>>)]

\* The classes in the declared order, the first one with the given areas.
ClassesInOrder(areas) ==
  [i \in DOMAIN ClassValues |->
     JObj(ClassEntry(ClassValues[i], IF i = 1 THEN areas ELSE <<>>))]

LocationsScenario ==
  BoardWith(ClassesInOrder(<<JObj(AreaEntry(CityEntry(NeighborhoodEntry)))>>))

\* The boards a LocationsResponse is exercised with: every list of up to
\* MaxClasses class names, and the declared order with every variant of
\* an area, of a class entry and of the list of boards.
LocationsPayloads ==
  {BoardWith([i \in DOMAIN names |-> JObj(ClassEntry(names[i], <<>>))]) :
     names \in UNION {[1..k -> ClassNames] : k \in 0..MaxClasses}}
    \cup {BoardWith(ClassesInOrder(<<JObj(a)>>)) : a \in AreaEntries}
    \cup {BoardWith([ClassesInOrder(<<>>) EXCEPT
                       ![1] = JObj(With(ClassEntry("condo", <<>>), k, v))]) :
            k \in {"activeCount", "coordinates"}, v \in {JNum(3), JNull}}
    \cup {BoardWith([ClassesInOrder(<<>>) EXCEPT
                       ![1] = JObj(Drop(ClassEntry("condo", <<>>), "areas"))]),
          [boards |-> JArr(<<>>)],
          [boards |-> JArr(LocationsScenario["boards"][2]
                             \o LocationsScenario["boards"][2])]}

\* A client record with the members Client declares without `?`.
ClientScenario ==
  [clientId |-> JNum(3), agentId |-> JNum(3), fname |-> JStr(""),
   lname |-> JStr(""), phone |-> JStr(""), email |-> JStr(""),
   proxyEmail |-> JStr(""), status |-> JBool(TRUE), lastActivity |-> JNull,
   tags |-> JStr(""),
   preferences |-> JObj([email |-> JBool(TRUE), sms |-> JBool(FALSE),
                         unsubscribe |-> JBool(FALSE),
                         whatsapp |-> JBool(FALSE)]),
   expiryDate |-> JNull, createdOn |-> JStr("2024-01-15"),
   externalId |-> JNull]

\* The saved searches a client record may embed: lists of none, one or
\* two saved searches, with or without classes or class, and one saved
\* search that is not in a list.
SavedSearchEntries ==
  {SavedSearchResponse,
   With(SavedSearchResponse, "classes", JArr(<<JStr("condo")>>)),
   With(SavedSearchResponse, "classes", JArr(<<JStr("bogus")>>)),
   With(SavedSearchResponse, "class", JArr(<<JStr("condo")>>)),
   Drop(SavedSearchResponse, "searchId")}

SavedSearchLists ==
  {JArr(<<>>), JObj(SavedSearchResponse),
   JArr(<<JObj(SavedSearchResponse), JObj(SavedSearchResponse)>>)}
    \cup {JArr(<<JObj(e)>>) : e \in SavedSearchEntries}

ClientPayloads ==
  {ClientScenario} \cup
    {With(ClientScenario, "searches", l) : l \in SavedSearchLists}

\* The base payloads a shape is exercised with: the empty object and, for
\* the shapes with a scenario, every sub-object of the scenario.
BasePayloads(n) ==
  CASE n = "Listing" -> SubObjects(ListingScenario)
    [] n = "SearchRequest" -> SubObjects(SearchScenario)
    [] n = "SearchResponse" -> SubObjects(ResponseScenario)
    [] n = "Details" -> SubObjects(DetailsScenario)
    [] n = "Map" -> SubObjects(MapScenario)
    [] n = "LocationsResponse" -> {EmptyObj} \cup LocationsPayloads
    [] n = "Clients.Client" -> {EmptyObj} \cup ClientPayloads
    [] n = "Searches.CreateRequest" -> SubObjects(SavedSearchRequest)
    [] n = "Searches.CreateResponse" -> SubObjects(SavedSearchResponse)
    [] n \in {"Estimate.AddRequest", "Estimate.PatchRequest"} ->
         {EmptyObj} \cup EstimateScenarios
    [] OTHER -> {EmptyObj}

\* The least payload a type accepts: its required members alone, each
\* with the least value of its type.
RECURSIVE Least(_), LeastObj(_)
Least(T) ==
  CASE T[1] = "prim" ->
         CASE T[2] = "string" -> JStr("")
           [] T[2] = "number" -> JNum(3)
           [] T[2] = "boolean" -> JBool(TRUE)
           [] OTHER -> JNull
    [] T[1] = "lit" -> JStr(T[2])
    [] T[1] = "tmpl" -> JStr("2024-01-15")
    [] T[1] = "union" -> Least(T[2][1])
    [] T[1] = "arr" -> JArr(<<>>)
    [] T[1] = "tup" -> JArr([i \in DOMAIN T[2] |-> Least(T[2][i])])
    [] OTHER -> JObj(LeastObj(View(T)))

LeastObj(view) ==
  LET required == {i \in DOMAIN view.fields : ~view.fields[i].opt}
      at(k) == CHOOSE i \in required : view.fields[i].name = k
  IN  [k \in {view.fields[i].name : i \in required} |->
         Least(view.fields[at(k)].ty)]

LeastPayload == [n \in ShapeNames |-> LeastObj(ViewOf[n])]

\* The base payloads one member is set on.
ProbeBases(n) ==
  CASE n = "Listing" -> {EmptyObj, ListingScenario}
    [] n = "SearchRequest" -> {EmptyObj, SearchScenario}
    [] n = "SearchResponse" -> {EmptyObj, ResponseScenario}
    [] n = "Details" -> {EmptyObj, DetailsScenario}
    [] n = "Map" -> {EmptyObj, MapScenario}
    [] n = "Searches.CreateRequest" -> {EmptyObj, SavedSearchRequest}
    [] n = "Searches.CreateResponse" -> {EmptyObj, SavedSearchResponse}
    [] n = "Clients.Client" -> {EmptyObj, ClientScenario}
    [] n = "Clients.FilterRequest" -> {EmptyObj, [email |-> JStr("")]}
    [] n = "Clients.UpdateRequest" -> {EmptyObj, [clientId |-> JNum(3)]}
    [] n = "Estimate.PatchRequest" ->
         {EmptyObj, [k \in {"estimateId"} |-> JNum(7)]}
    [] OTHER -> {EmptyObj, LeastPayload[n]}

\* The member names a shape is probed with: the names it declares and the
\* names the interfaces it is built on declare.
BaseNames(n) ==
  UNION {Names(Shape(b).fields) : b \in Bases(<<"ref", n>>)}

ProbeNames == [n \in ShapeNames |-> FieldNames(n) \cup BaseNames(n)]

\* ---- the state machine: one request at a time
NoCheck == [vs |-> "", lit |-> "", member |-> FALSE, typed |-> FALSE]

NoCall == [none |-> TRUE]

Init ==
  /\ pc = "idle"
  /\ check = NoCheck
  /\ shape = ""
  /\ wire = EmptyObj
  /\ typed = NoTyped
  /\ out = EmptyObj
  /\ markers = {}
  /\ store = <<>>
  /\ op = "ready"
  /\ call = NoCall
  /\ ret = NoCall

\* A string is checked against a value-set both ways: at run time against
\* the array, and as a value of the derived type.
CheckMember ==
  /\ pc = "idle"
  /\ \E v \in ValueSetNames, s \in Strings :
       check' = [vs |-> v, lit |-> s,
                 member |-> Includes(ValuesOf(v), s),
                 typed |-> HasType(JStr(s), TypeOf(v))]
  /\ pc' = "member"
  /\ UNCHANGED <<shape, wire, typed, out, markers, store, op, call, ret>>

\* A shape is classified by the envelope markers it is built on.
Classify ==
  /\ pc = "idle"
  /\ \E n \in ShapeNames :
       /\ shape' = n
       /\ markers' = MarkersOf(n)
  /\ pc' = "classified"
  /\ UNCHANGED <<check, wire, typed, out, store, op, call, ret>>

\* A payload for a shape arrives: a base payload, as it is.
ReceiveBase ==
  /\ pc = "idle"
  /\ \E n \in ShapeNames :
       /\ shape' = n
       /\ \E base \in BasePayloads(n) : wire' = base
  /\ pc' = "received"
  /\ UNCHANGED <<check, typed, out, markers, store, op, call, ret>>

\* A payload for a shape arrives: a base payload with one member set, to
\* a declared or an undeclared name.
ReceiveWith ==
  /\ pc = "idle"
  /\ \E n \in ShapeNames :
       /\ shape' = n
       /\ \E base \in ProbeBases(n), k \in ProbeNames[n] \cup UnknownNames,
             v \in Samples :
            wire' = With(base, k, v)
  /\ pc' = "received"
  /\ UNCHANGED <<check, typed, out, markers, store, op, call, ret>>

DecodeStep ==
  /\ pc = "received"
  /\ pc' = "decoded"
  /\ typed' = Decode(shape, wire)
  /\ UNCHANGED <<check, shape, wire, out, markers, store, op, call, ret>>

EncodeStep ==
  /\ pc = "decoded"
  /\ typed.ok
  /\ pc' = "encoded"
  /\ out' = Encode(typed)
  /\ UNCHANGED <<check, shape, wire, typed, markers, store, op, call, ret>>

\* The request is done; the consumer is ready for the next one.
Finish ==
  /\ \/ pc \in {"member", "classified", "encoded"}
     \/ pc = "decoded" /\ ~typed.ok
  /\ pc' = "idle"
  /\ check' = NoCheck
  /\ shape' = ""
  /\ wire' = EmptyObj
  /\ typed' = NoTyped
  /\ out' = EmptyObj
  /\ markers' = {}
  /\ UNCHANGED <<store, op, call, ret>>

Next ==
  \/ CheckMember
  \/ Classify
  \/ ReceiveBase
  \/ ReceiveWith
  \/ DecodeStep
  \/ EncodeStep
  \/ Finish

Spec == Init /\ [][Next]_vars

\* ---------------------------------------------------------------------
\* The planned service (TODO.md, phases 2, 4, 5 and 6): a listings table,
\* the search over it and the import into it.

\* ---- bounds of the service's inputs
MaxRows == 3
MaxStart == 2
MaxBatch == 2
MaxPage == 3
MaxPageSize == 2

\* page_num and results_per_page: Field(1, ...) and Field(25, ...)
DefaultPageNum == 1
DefaultResultsPerPage == 25

\* Python's truth value of an Optional[int] or an Optional[List]: None, 0
\* and the empty list are false.
Truthy(v) ==
  CASE v[1] = "null" -> FALSE
    [] v[1] = "num" -> v[2] # 0
    [] v[1] = "arr" -> v[2] # <<>>
    [] OTHER -> TRUE

SeqsUpTo(S, n) == UNION {[1..k -> S] : k \in 0..n}

\* ---- the listings table: mls_number is not nullable, board_id is
ListingDB == [mls_number : {JStr("X"), JStr("Y")},
              board_id : {JNull, JNum(0), JNum(1)}]

KeyOf(row) == <<row.mls_number, row.board_id>>
KeysUnique(s) ==
  \A i, j \in DOMAIN s : KeyOf(s[i]) = KeyOf(s[j]) => i = j

Stores == {s \in SeqsUpTo(ListingDB, MaxStart) : KeysUnique(s)}

\* ---- the items of an import file
ListingItems ==
  {JObj(EmptyObj)} \cup
  {JObj(Restrict([mlsNumber |-> m, boardId |-> b], ks)) :
     m \in {JStr("X"), JStr("Y")}, b \in {JNull, JNum(0), JNum(1)},
     ks \in {{"mlsNumber"}, {"boardId"}, {"mlsNumber", "boardId"}}}
BadItems == {JObj([mlsNumber |-> JNum(5)]), JObj([boardId |-> JStr("x")])}
Items == ListingItems \cup BadItems \cup {JNum(7)}

\* Listing(**item): the item must be a mapping; mlsNumber is Optional[str]
\* and boardId Optional[int]; a member the item leaves out is None and is
\* not among the fields set.
Validates(item) ==
  /\ item[1] = "obj"
  /\ "mlsNumber" \in DOMAIN item[2] => item[2]["mlsNumber"][1] \in {"str", "null"}
  /\ "boardId" \in DOMAIN item[2] => item[2]["boardId"][1] \in {"num", "null"}

ListingModel(item) ==
  LET o == item[2]
  IN  [mls_number |-> IF "mlsNumber" \in DOMAIN o THEN o["mlsNumber"] ELSE JNull,
       board_id |-> IF "boardId" \in DOMAIN o THEN o["boardId"] ELSE JNull,
       fields_set |-> {f \in {"mls_number", "board_id"} :
                         (IF f = "mls_number" THEN "mlsNumber" ELSE "boardId")
                            \in DOMAIN o}]

Listings == {ListingModel(item) : item \in ListingItems}

\* ---- CRUDListing
\* The rows the query of get_by_mls_number selects; first() returns one
\* of them (the query states no order), or None when there is none.
get_by_mls_number(s, mls_number, board_id) ==
  {i \in DOMAIN s :
     /\ s[i].mls_number = mls_number
     /\ Truthy(board_id) => s[i].board_id = board_id}

\* CRUDBase.update: every column the model has set is written to the row.
update(s, i, obj_in) ==
  [s EXCEPT ![i] =
     [mls_number |-> IF "mls_number" \in obj_in.fields_set
                     THEN obj_in.mls_number ELSE @.mls_number,
      board_id |-> IF "board_id" \in obj_in.fields_set
                   THEN obj_in.board_id ELSE @.board_id]]

\* CRUDBase.create: the insert of a row without mls_number fails at commit.
CreateRaises(obj_in) == obj_in.mls_number = JNull
create(s, obj_in) ==
  Append(s, [mls_number |-> obj_in.mls_number, board_id |-> obj_in.board_id])

Raised(s) == [store |-> s, raised |-> TRUE, value |-> 0]
Returned(s, v) == [store |-> s, raised |-> FALSE, value |-> v]

\* The outcomes of bulk_import from the table s on, with count so far.
RECURSIVE bulk_import(_, _, _)
bulk_import(s, listings, count) ==
  IF listings = <<>> THEN {Returned(s, count)}
  ELSE LET listing_data == Head(listings)
           existing == get_by_mls_number(s, listing_data.mls_number,
                                         listing_data.board_id)
       IN  IF existing # {}
           THEN UNION {bulk_import(update(s, i, listing_data),
                                   Tail(listings), count + 1) : i \in existing}
           ELSE IF CreateRaises(listing_data) THEN {Raised(s)}
           ELSE bulk_import(create(s, listing_data), Tail(listings), count + 1)

\* ---- ImportService
\* The validation loop: the models that validate, the items that do not;
\* the handler of a failed item calls item.get, which an item that is no
\* mapping does not have.
Valid(items) == SelectSeq(items, Validates)
Invalid(items) == SelectSeq(items, LAMBDA item : ~Validates(item))
HandlerRaises(items) == \E i \in DOMAIN items : items[i][1] # "obj"

ModelsOf(items) == [i \in DOMAIN Valid(items) |-> ListingModel(Valid(items)[i])]

import_listings_from_json(s, listings_data) ==
  IF HandlerRaises(listings_data) THEN {Raised(s)}
  ELSE {IF r.raised THEN Raised(r.store)
        ELSE Returned(r.store,
               [total_processed |-> Len(listings_data),
                imported |-> r.value,
                errors |-> Len(Invalid(listings_data))]) :
          r \in bulk_import(s, ModelsOf(listings_data), 0)}

\* ---- SearchService
\* SearchRequest(**request): pageNum and resultsPerPage default to 1 and
\* 25; the model declares aggregates and declares no statistics.
SearchRequests ==
  {Restrict([pageNum |-> JNum(p), resultsPerPage |-> JNum(r), aggregates |-> a], ks) :
     p \in 1..MaxPage, r \in 1..MaxPageSize,
     a \in {JNull, JArr(<<>>), JArr(<<JStr("class")>>)},
     ks \in SUBSET {"pageNum", "resultsPerPage", "aggregates"}}

SearchParams(request) ==
  [page_num |-> IF "pageNum" \in DOMAIN request
                THEN request["pageNum"][2] ELSE DefaultPageNum,
   results_per_page |-> IF "resultsPerPage" \in DOMAIN request
                        THEN request["resultsPerPage"][2]
                        ELSE DefaultResultsPerPage,
   aggregates |-> IF "aggregates" \in DOMAIN request
                  THEN request["aggregates"] ELSE JNull]

\* The orders ORDER BY updated_on can give the rows (the model keeps no
\* updated_on: every order).
Orders(s) ==
  {[i \in DOMAIN s |-> s[p[i]]] :
     p \in {q \in [DOMAIN s -> DOMAIN s] :
              \A i, j \in DOMAIN s : q[i] = q[j] => i = j}}

Min(a, b) == IF a < b THEN a ELSE b

\* offset(skip).limit(n)
OffsetLimit(rows, skip, n) == SubSeq(rows, skip + 1, Min(skip + n, Len(rows)))

\* `params.aggregates or params.statistics` reads params.statistics when
\* aggregates is not true, and SearchRequest has no such attribute.
StatisticsRaises(params) == ~Truthy(params.aggregates)

search(s, params) ==
  IF StatisticsRaises(params) THEN {Raised(s)}
  ELSE LET total_count == Len(s)
           skip == (params.page_num - 1) * params.results_per_page
       IN  {Returned(s,
              [page |-> params.page_num,
               numPages |-> (total_count + params.results_per_page - 1)
                              \div params.results_per_page,
               pageSize |-> params.results_per_page,
               count |-> total_count,
               listings |-> OffsetLimit(rows, skip, params.results_per_page),
               ordered |-> rows]) :
             rows \in Orders(s)}

\* ---- the service as a state machine: one call at a time
ServiceInit ==
  /\ pc = "idle"
  /\ check = NoCheck
  /\ shape = ""
  /\ wire = EmptyObj
  /\ typed = NoTyped
  /\ out = EmptyObj
  /\ markers = {}
  /\ store \in Stores
  /\ op = "ready"
  /\ call = NoCall
  /\ ret = NoCall

Outcome(r) ==
  /\ store' = r.store
  /\ ret' = [raised |-> r.raised, value |-> r.value]

Search ==
  /\ op = "ready"
  /\ \E request \in SearchRequests :
       /\ call' = [before |-> store, input |-> request]
       /\ \E r \in search(store, SearchParams(request)) : Outcome(r)
  /\ op' = "searched"
  /\ UNCHANGED types

BulkImport ==
  /\ op = "ready"
  /\ \E listings \in SeqsUpTo(Listings, MaxBatch) :
       /\ Len(store) + Len(listings) <= MaxRows
       /\ call' = [before |-> store, input |-> listings]
       /\ \E r \in bulk_import(store, listings, 0) : Outcome(r)
  /\ op' = "bulk"
  /\ UNCHANGED types

ImportListingsFromJson ==
  /\ op = "ready"
  /\ \E listings_data \in SeqsUpTo(Items, MaxBatch) :
       /\ Len(store) + Len(listings_data) <= MaxRows
       /\ call' = [before |-> store, input |-> listings_data]
       /\ \E r \in import_listings_from_json(store, listings_data) : Outcome(r)
  /\ op' = "imported"
  /\ UNCHANGED types

\* The caller has the outcome; the service takes the next call.
Return ==
  /\ op # "ready"
  /\ op' = "ready"
  /\ call' = NoCall
  /\ ret' = NoCall
  /\ UNCHANGED store
  /\ UNCHANGED types

ServiceNext ==
  \/ Search
  \/ BulkImport
  \/ ImportListingsFromJson
  \/ Return

ServiceSpec == ServiceInit /\ [][ServiceNext]_vars

\* ---- helpers of the properties
Lits(arr) == {JStr(arr[i]) : i \in DOMAIN arr}
Undeclared(n, obj) == DOMAIN obj \ FieldNames(n)
\* The members of a payload that the shape declares, on their own.
DeclaredPart(n, obj) == Restrict(obj, DOMAIN obj \cap FieldNames(n))

\* C1: for every closed value-set, a string is admitted by the derived
\* type exactly when the runtime array lists it: the membership check
\* succeeds for every literal of the array and fails for any other string.
C1_TypeEqualsArray ==
  pc = "member" =>
    /\ check.typed <=> check.member
    /\ check.member <=> JStr(check.lit) \in Lits(ValuesOf(check.vs))

\* C1 witness: the empty string, the last literal of StreetDirectionValues,
\* is found in the array and admitted by StreetDirection.
C1_Witness ==
  /\ pc = "member"
  /\ check.vs = "StreetDirection"
  /\ check.lit = ""
  /\ check.member
  /\ check.typed

EnumFilters == {<<"sortBy", "SortBy">>}
EnumListFilters ==
  {<<"status", "Status">>, <<"class", "Class">>, <<"type", "Type">>,
   <<"lastStatus", "LastStatus">>, <<"aggregates", "Aggregates">>}
FeeFlags ==
  {"cableIncl", "heatIncl", "hydroIncl", "parkingIncl", "taxesIncl", "waterIncl"}
AllIn(v, S) == v[1] = "arr" /\ \A i \in DOMAIN v[2] : v[2][i] \in S
Without(obj, k) == Restrict(obj, DOMAIN obj \ {k})

NullableOptional(n) ==
  {Fields(n)[i].name :
     i \in {j \in DOMAIN Fields(n) :
              Fields(n)[j].opt /\ HasType(JNull, Fields(n)[j].ty)}}

\* The nullable-optional fields the claim names.
TriStateFields(n) ==
  CASE n = "Listing" -> {"soldPrice", "soldDate"}
    [] n = "Address" -> FieldNames("Address")
    [] n = "Timestamp" -> FieldNames("Timestamp") \ {"repliersUpdatedOn"}
    [] OTHER -> {}

BedsAliases ==
  {<<"maxBeds", "maxBedrooms">>, <<"maxBedsPlus", "maxBedroomsPlus">>}

\* A payload with the member `old` carried under the name `new`.
Rename(obj, old, new) ==
  [k \in (DOMAIN obj \ {old}) \cup {new} |->
     IF k = new THEN obj[old] ELSE obj[k]]

\* The constraint a request expresses: every deprecated member moved to
\* the field its `@deprecated use X field instead` note names, unless the
\* request sets that field too.
Canonical(n, obj) ==
  LET moved == {k \in DOMAIN obj \cap FieldNames(n) :
                  /\ FieldOf(n, k).dep # ""
                  /\ FieldOf(n, k).dep \notin DOMAIN obj}
      target(k) == IF k \in moved THEN FieldOf(n, k).dep ELSE k
  IN  [x \in {target(k) : k \in DOMAIN obj} |->
         obj[CHOOSE k \in DOMAIN obj : target(k) = x]]

ValidSubset(n, obj) ==
  /\ DOMAIN obj \subseteq FieldNames(n)
  /\ \A k \in DOMAIN obj : HasType(obj[k], FieldOf(n, k).ty)

PaginationAndListings == {"page", "numPages", "pageSize", "count", "listings"}

\* C9 as stated: a SearchResponse needs page, numPages, pageSize, count and
\* listings, and nothing else: a response made of members of the scenario
\* page is valid exactly when it has those five, with or without
\* statistics.
C9_StatisticsOptional ==
  (/\ pc = "decoded"
   /\ shape = "SearchResponse"
   /\ wire \in SubObjects(ResponseScenario))
  => (typed.ok <=> PaginationAndListings \subseteq DOMAIN wire)

\* C10 as stated: a concrete request shape is built on the request marker
\* and not on the response marker, a concrete response shape on the
\* response marker and not on the request marker.
C10_MarkerTellsDirection ==
  pc = "classified" =>
    /\ shape \in RequestShapes =>
         ("ApiRequest" \in markers /\ "ApiResponse" \notin markers)
    /\ shape \in ResponseShapes =>
         ("ApiResponse" \in markers /\ "ApiRequest" \notin markers)

\* An envelope marker: an interface of the core that declares no member
\* and extends Record<string, unknown> alone.
IsMarker(n) ==
  /\ Shape(n).fields = <<>>
  /\ Shape(n).index = <<>>
  /\ Shape(n).extends = << <<"rec", unknown>> >>

Markers == {n \in ShapeNames : IsMarker(n)}

\* C11 as stated: the catalog has two envelope markers, the request one
\* and the response one, each without a named field.
C11_TwoMarkers ==
  (pc = "classified" /\ IsMarker(shape)) =>
    /\ shape \in {"ApiRequest", "ApiResponse"}
    /\ Fields(shape) = <<>>

\* C11 as amended: the catalog has three envelope markers, ApiRequest,
\* ApiResponse and ApiRequestBody; each declares no named field and is
\* built on itself alone; no other shape is built on ApiRequestBody.
C11_ThreeMarkers ==
  /\ Markers = {"ApiRequest", "ApiResponse", "ApiRequestBody"}
  /\ Markers = MarkerNames
  /\ pc = "classified" =>
       /\ IsMarker(shape) =>
            /\ Fields(shape) = <<>>
            /\ IsOpen(shape)
            /\ markers = {shape}
       /\ ~IsMarker(shape) => "ApiRequestBody" \notin markers

\* C11 witness: ApiRequestBody was classified: a marker with no field.
C11_Witness ==
  /\ pc = "classified"
  /\ shape = "ApiRequestBody"
  /\ markers = {"ApiRequestBody"}
  /\ Fields(shape) = <<>>

\* The property facts the claim calls required: the address, and in the
\* details the bedroom and bathroom counts, the square footage and the
\* property type.
HasPropertyFacts(obj) ==
  /\ {"address", "details"} \subseteq DOMAIN obj
  /\ obj["address"][1] = "obj"
  /\ obj["details"][1] = "obj"
  /\ {"numBedrooms", "numBathrooms", "sqft", "propertyType"}
       \subseteq DOMAIN obj["details"][2]

\* C12 as stated: a request that is accepted as an Estimate AddRequest or
\* PatchRequest holds the address, the bedroom and bathroom counts, the
\* square footage and the property type.
C12_PropertyFactsRequired ==
  (/\ pc = "decoded"
   /\ shape \in {"Estimate.AddRequest", "Estimate.PatchRequest"}
   /\ typed.ok)
  => HasPropertyFacts(wire)

\* C13 as stated: a Searches.CreateResponse carries searchId, agentId and
\* a client made of fname, lname, email and phone alone, and every member
\* of it that CreateRequest declares is a declared field of the response
\* and has the type CreateRequest gives it.
C13_ResponseAugmentsRequest ==
  (/\ pc = "decoded"
   /\ shape = "Searches.CreateResponse"
   /\ typed.ok)
  => /\ {"searchId", "agentId", "client"} \subseteq DOMAIN wire
     /\ wire["client"][1] = "obj"
     /\ DOMAIN wire["client"][2] = {"fname", "lname", "email", "phone"}
     /\ \A k \in DOMAIN wire \cap FieldNames("Searches.CreateRequest") :
          /\ k \in FieldNames("Searches.CreateResponse")
          /\ HasType(wire[k], FieldOf("Searches.CreateRequest", k).ty)

\* The members of a list of JSON objects, and the names the class entries
\* of a board carry, in order.
Entries(obj, k) == {obj[k][2][i][2] : i \in DOMAIN obj[k][2]}
ClassNamesOf(board) ==
  [i \in DOMAIN board["classes"][2] |-> board["classes"][2][i][2]["name"]]
HasList(obj, k) == k \in DOMAIN obj /\ obj[k][1] = "arr"

\* C14: an accepted LocationsResponse has boards whose classes are exactly
\* three entries named condo, residential, commercial in that order (the
\* order of ClassValues); every class entry has a list of areas, every
\* area a list of cities and every city a list of neighborhoods.  The
\* response in that order is accepted.
C14_ThreeClassesInOrder ==
  (pc = "decoded" /\ shape = "LocationsResponse") =>
    /\ wire = LocationsScenario => typed.ok
    /\ (typed.ok /\ wire \in LocationsPayloads) =>
         \A board \in Entries(wire, "boards") :
           /\ Len(board["classes"][2]) = 3
           /\ ClassNamesOf(board)
                = <<JStr("condo"), JStr("residential"), JStr("commercial")>>
           /\ ClassNamesOf(board) = [i \in 1..3 |-> JStr(ClassValues[i])]
           /\ \A class \in Entries(board, "classes") :
                /\ HasList(class, "areas")
                /\ \A area \in Entries(class, "areas") :
                     /\ HasList(area, "cities")
                     /\ \A city \in Entries(area, "cities") :
                          HasList(city, "neighborhoods")
    /\ \A names \in UNION {[1..k -> ClassNames] : k \in 0..MaxClasses} :
         wire = BoardWith([i \in DOMAIN names |->
                             JObj(ClassEntry(names[i], <<>>))])
           => (typed.ok <=> names = ClassValues)

\* C14 witness: a board whose classes are commercial, residential, condo
\* was refused.
C14_Witness ==
  /\ pc = "decoded"
  /\ shape = "LocationsResponse"
  /\ wire \in LocationsPayloads
  /\ Len(wire["boards"][2]) = 1
  /\ Len(wire["boards"][2][1][2]["classes"][2]) = 3
  /\ ClassNamesOf(wire["boards"][2][1][2])
       = <<JStr("commercial"), JStr("residential"), JStr("condo")>>
  /\ ~typed.ok

\* The entries of each level of an accepted locations payload.
ClassLevel(obj) ==
  UNION {Entries(b, "classes") : b \in Entries(obj, "boards")}
AreaLevel(obj) == UNION {Entries(c, "areas") : c \in ClassLevel(obj)}
CityLevel(obj) == UNION {Entries(a, "cities") : a \in AreaLevel(obj)}
NeighborhoodLevel(obj) ==
  UNION {Entries(c, "neighborhoods") : c \in CityLevel(obj)}

CarriesCount(e) == "activeCount" \in DOMAIN e /\ e["activeCount"][1] = "num"
\* Polygon coordinates, null, or none.
OptionalPolygon(e) ==
  "coordinates" \in DOMAIN e =>
    HasType(e["coordinates"], LocationCoordinates)

\* C15 as stated: in an accepted LocationsResponse every entry of every
\* level, class, area, city and neighborhood, carries a count and, if any,
\* polygon coordinates.
C15_EveryLevelCounts ==
  (/\ pc = "decoded"
   /\ shape = "LocationsResponse"
   /\ typed.ok
   /\ wire \in LocationsPayloads)
  => \A e \in ClassLevel(wire) \cup AreaLevel(wire) \cup CityLevel(wire)
                \cup NeighborhoodLevel(wire) :
       CarriesCount(e) /\ OptionalPolygon(e)

\* C15 as amended: in an accepted LocationsResponse every city and every
\* neighborhood carries a count (activeCount) and a coordinates member
\* that is a polygon or null, neither of which may be left out; a class
\* entry carries its name and areas and nothing else, an area its name and
\* cities and nothing else.
C15_CityAndNeighborhoodCount ==
  /\ {"activeCount", "coordinates"} \subseteq
       FieldNames("City") \cap FieldNames("Neighborhood")
  /\ {"activeCount", "coordinates"} \cap
       (FieldNames("Area") \cup FieldNames("ClassWithAreas")) = {}
  /\ (pc = "decoded" /\ shape = "LocationsResponse"
        /\ wire \in LocationsPayloads) =>
       /\ typed.ok =>
            /\ \A e \in CityLevel(wire) \cup NeighborhoodLevel(wire) :
                 /\ CarriesCount(e)
                 /\ "coordinates" \in DOMAIN e
                 /\ e["coordinates"] \in {JNull, Polygon}
            /\ \A e \in ClassLevel(wire) : DOMAIN e = {"name", "areas"}
            /\ \A e \in AreaLevel(wire) : DOMAIN e = {"name", "cities"}
       /\ \A city \in Variants(CityEntry(NeighborhoodEntry)) :
            wire = BoardWith(ClassesInOrder(<<JObj(AreaEntry(city))>>)) =>
              (typed.ok <=>
                 {"activeCount", "coordinates"} \subseteq DOMAIN city)
       /\ \A n \in Variants(NeighborhoodEntry) :
            wire = BoardWith(ClassesInOrder(
                     <<JObj(AreaEntry(CityEntry(n)))>>)) =>
              (typed.ok <=> {"activeCount", "coordinates"} \subseteq DOMAIN n)

\* C15 witness: a response whose city carries a polygon was accepted, with
\* an area that carries no count.
C15_Witness ==
  /\ pc = "decoded"
  /\ shape = "LocationsResponse"
  /\ wire = BoardWith(ClassesInOrder(
              <<JObj(AreaEntry(With(CityEntry(NeighborhoodEntry),
                                    "coordinates", Polygon)))>>))
  /\ typed.ok
  /\ \A a \in AreaLevel(wire) : ~CarriesCount(a)

\* The Clients request shapes that filter clients, the member that holds
\* the matching mode in each, and the two modes.
ClientFilterShapes ==
  {"Clients.CreateRequest", "Clients.UpdateRequest", "Clients.FilterRequest"}
ConditionField(n) ==
  IF n = "Clients.FilterRequest" THEN "condition" ELSE "conditions"
MatchingModes == {JStr("EXACT"), JStr("CONTAINS")}

\* C16: in the Clients request shapes that filter clients the matching
\* mode is EXACT or CONTAINS and the operator is AND or OR, the members of
\* OperatorValues: a request with any other value in either field is
\* refused, one with any of these values on a valid request is accepted.
C16_ModeAndOperatorClosed ==
  /\ Lits(OperatorValues) = {JStr("AND"), JStr("OR")}
  /\ (pc = "decoded" /\ shape \in ClientFilterShapes) =>
       /\ {ConditionField(shape), "operator"} \subseteq FieldNames(shape)
       /\ typed.ok =>
            /\ ConditionField(shape) \in DOMAIN wire =>
                 wire[ConditionField(shape)] \in MatchingModes
            /\ "operator" \in DOMAIN wire =>
                 wire["operator"] \in Lits(OperatorValues)
       /\ \A base \in ProbeBases(shape) : \A v \in Samples :
            Accepts(shape, base) =>
              /\ wire = With(base, ConditionField(shape), v) =>
                   (typed.ok <=> v \in MatchingModes)
              /\ wire = With(base, "operator", v) =>
                   (typed.ok <=> v \in Lits(OperatorValues))

\* C16 witness: a FilterRequest with operator "and" was refused.
C16_Witness ==
  /\ pc = "decoded"
  /\ shape = "Clients.FilterRequest"
  /\ "email" \in DOMAIN wire
  /\ "operator" \in DOMAIN wire
  /\ wire["operator"] = JStr("and")
  /\ ~typed.ok

\* C17: StatusValues is the list A, U; ClassValues the list condo,
\* residential, commercial; LastStatusValues has 12 codes, all different;
\* SortByValues has at least 25 sort orders, all different; and a string
\* is a Status or a Class exactly when it is one of those literals.
C17_ValueSetContents ==
  /\ StatusValues = <<"A", "U">>
  /\ ClassValues = <<"condo", "residential", "commercial">>
  /\ Len(LastStatusValues) = 12
  /\ Cardinality(Range(LastStatusValues)) = 12
  /\ Len(SortByValues) >= 25
  /\ Cardinality(Range(SortByValues)) >= 25
  /\ pc = "member" =>
       /\ check.vs = "Status" => (check.typed <=> check.lit \in {"A", "U"})
       /\ check.vs = "Class" =>
            (check.typed <=>
               check.lit \in {"condo", "residential", "commercial"})
       /\ check.vs = "LastStatus" =>
            (check.typed <=>
               \E i \in 1..12 : LastStatusValues[i] = check.lit)
       /\ check.vs = "SortBy" =>
            (check.typed <=>
               \E i \in 1..Len(SortByValues) : SortByValues[i] = check.lit)

\* C17 witness: "U", the second and last Status, was checked and found.
C17_Witness ==
  /\ pc = "member"
  /\ check.vs = "Status"
  /\ check.lit = StatusValues[2]
  /\ check.lit = "U"
  /\ Len(StatusValues) = 2
  /\ check.member

PriceFields == {"listPrice", "soldPrice", "originalPrice"}

C19_TypoKept ==
  /\ Includes(AggregatesValues, "detail.numBedrooms")
  /\ ~Includes(AggregatesValues, "details.numBedrooms")
  /\ (pc = "member" /\ check.vs = "Aggregates") =>
       /\ check.lit = "detail.numBedrooms" => (check.member /\ check.typed)
       /\ check.lit = "details.numBedrooms" =>
            (~check.member /\ ~check.typed)

\* C19 witness: details.numBedrooms was checked against Aggregates and
\* not found.
C19_Witness ==
  /\ pc = "member"
  /\ check.vs = "Aggregates"
  /\ check.lit = "details.numBedrooms"
  /\ ~check.member

\* The fields of a shape marked `@deprecated`.
DeprecatedFields(n) ==
  {Fields(n)[i].name : i \in {j \in DOMAIN Fields(n) : Fields(n)[j].dep # ""}}

\* C20 as stated: the only fields of SearchRequest marked deprecated are
\* maxBeds and maxBedsPlus: any other field a request carries is current.
C20_TwoDeprecated ==
  (pc = "decoded" /\ shape = "SearchRequest" /\ typed.ok) =>
    \A k \in DOMAIN wire \cap FieldNames("SearchRequest") :
      FieldOf("SearchRequest", k).dep # "" => k \in {"maxBeds", "maxBedsPlus"}

\* C20 as amended: SearchRequest marks exactly four fields deprecated,
\* maxBeds, maxBedsPlus, minBeds and minBedsPlus, each pointing to the
\* field of the same type named with Bedrooms for Beds; no other field of
\* SearchRequest is marked deprecated.
C20_FourDeprecated ==
  /\ DeprecatedFields("SearchRequest")
       = {"maxBeds", "maxBedsPlus", "minBeds", "minBedsPlus"}
  /\ FieldOf("SearchRequest", "maxBeds").dep = "maxBedrooms"
  /\ FieldOf("SearchRequest", "maxBedsPlus").dep = "maxBedroomsPlus"
  /\ FieldOf("SearchRequest", "minBeds").dep = "minBedrooms"
  /\ FieldOf("SearchRequest", "minBedsPlus").dep = "minBedroomsPlus"
  /\ \A k \in DeprecatedFields("SearchRequest") :
       LET f == FieldOf("SearchRequest", k)
       IN  /\ f.dep \in FieldNames("SearchRequest")
           /\ FieldOf("SearchRequest", f.dep).ty = f.ty
           /\ FieldOf("SearchRequest", f.dep).dep = ""
  /\ (pc = "decoded" /\ shape = "SearchRequest" /\ typed.ok) =>
       \A k \in DOMAIN wire \cap FieldNames("SearchRequest") :
         /\ FieldOf("SearchRequest", k).dep # "" <=>
              k \in {"maxBeds", "maxBedsPlus", "minBeds", "minBedsPlus"}
         /\ FieldOf("SearchRequest", k).dep = "" =>
              k \in DOMAIN Canonical("SearchRequest", wire)

\* C20 witness: a SearchRequest with the deprecated minBeds was accepted.
C20_Witness ==
  /\ pc = "decoded"
  /\ shape = "SearchRequest"
  /\ "minBeds" \in DOMAIN wire
  /\ FieldOf("SearchRequest", "minBeds").dep = "minBedrooms"
  /\ typed.ok

\* The members of Listing that hold one nested object, a keyed collection
\* of nested objects, and a list of nested objects.
NestedObjects ==
  {"address", "map", "permissions", "details", "condominium", "lot",
   "nearby", "office", "taxes", "timestamps"}
NestedKeyed == {"rooms", "openHouse"}
NestedLists == {"agents"}

\* C21 as stated: an empty object is a valid value for every object
\* nested in a Listing: address, map, permissions, details, condominium,
\* lot, nearby, office, taxes, timestamps, each room, each open house and
\* each agent.
C21_NestedAllOptional ==
  (pc = "decoded" /\ shape = "Listing") =>
    /\ \A k \in NestedObjects : wire = [x \in {k} |-> JObj(EmptyObj)] => typed.ok
    /\ \A k \in NestedKeyed :
         wire = [x \in {k} |-> JObj([r \in {"1"} |-> JObj(EmptyObj)])]
           => typed.ok
    /\ \A k \in NestedLists :
         wire = [x \in {k} |-> JArr(<<JObj(EmptyObj)>>)] => typed.ok

\* C22 as stated: Estimate.PatchRequest declares the fields of
\* Estimate.AddRequest other than boardId, with their types and
\* optionality, and a required estimateId; a PatchRequest that sets
\* boardId, or sets a field AddRequest declares to a value that is not of
\* its type, is refused.
C22_PatchMirrorsAdd ==
  (pc = "decoded" /\ shape = "Estimate.PatchRequest" /\ typed.ok) =>
         /\ FieldNames("Estimate.PatchRequest")
              = (FieldNames("Estimate.AddRequest") \ {"boardId"})
                  \cup {"estimateId"}
         /\ "estimateId" \in DOMAIN wire
         /\ "boardId" \notin DOMAIN wire
         /\ \A k \in DOMAIN wire \cap FieldNames("Estimate.AddRequest") :
              HasType(wire[k], FieldOf("Estimate.AddRequest", k).ty)

\* A saved-search record as the claim describes it: a
\* Searches.CreateResponse without class, with an optional classes list
\* of Class values.
IsSavedSearch(v) ==
  /\ v[1] = "obj"
  /\ "class" \notin DOMAIN v[2]
  /\ Accepts("Searches.CreateResponse", Drop(v[2], "classes"))
  /\ "classes" \in DOMAIN v[2] => HasType(v[2]["classes"], <<"arr", Class>>)

\* C23 as stated: a Client that is valid without searches is valid with
\* searches exactly when searches is a list of saved-search records.
C23_SearchesIsList ==
  (/\ pc = "decoded"
   /\ shape = "Clients.Client"
   /\ "searches" \in DOMAIN wire
   /\ Accepts("Clients.Client", Drop(wire, "searches")))
  => (typed.ok <=>
        /\ wire["searches"][1] = "arr"
        /\ \A i \in DOMAIN wire["searches"][2] :
             IsSavedSearch(wire["searches"][2][i]))

\* ---- C24
Ceiling(a, b) == IF a % b = 0 THEN a \div b ELSE a \div b + 1

RequestedOr(request, k, default) ==
  IF k \in DOMAIN request THEN request[k][2] ELSE default

\* The response pages `count` rows by `size` and is page `page` of them.
Paginates(response, page, size, count) ==
  /\ response.count = count
  /\ response.numPages = Ceiling(count, size)
  /\ response.page = page
  /\ response.pageSize = size
  /\ Len(response.listings) <= size
  /\ \A i \in DOMAIN response.listings :
       /\ (page - 1) * size + i \in DOMAIN response.ordered
       /\ response.listings[i] = response.ordered[(page - 1) * size + i]
  /\ \A i \in 1..size :
       (page - 1) * size + i \in DOMAIN response.ordered
          => i \in DOMAIN response.listings

\* C24: for every match count and every page size of at least 1, search
\* returns a response whose numPages is the ceiling of count over the page
\* size, that echoes the requested page number and page size, and whose
\* listings are the at most page-size rows from offset (pageNum - 1) x
\* page size; a request that sets neither has page 1 and page size 25.
C24_SearchPaginates ==
  op = "searched" =>
    /\ ~ret.raised
    /\ Paginates(ret.value, RequestedOr(call.input, "pageNum", 1),
                 RequestedOr(call.input, "resultsPerPage", 25),
                 Len(call.before))

\* ---- C25
\* C25: for every list of items, import_listings_from_json reports
\* total_processed equal to the number of items, and total_processed =
\* imported + errors: each item is counted once, as imported or as an
\* error.
C25_EachItemCountedOnce ==
  op = "imported" =>
    /\ ~ret.raised
    /\ ret.value.total_processed = Len(call.input)
    /\ ret.value.total_processed = ret.value.imported + ret.value.errors

\* ---- C26
\* C26: bulk_import is an upsert keyed by (mlsNumber, boardId): from a
\* table in which no two rows share the key, after bulk_import of any
\* sequence of listings no two rows share the key.
C26_BulkImportKeepsKeysUnique ==
  (op = "bulk" /\ KeysUnique(call.before)) => KeysUnique(store)

\* ---- C27
EnvelopeShapes == RequestShapes \cup ResponseShapes

\* The members of a payload that the shape does not declare.
Additional(n, obj) == DOMAIN obj \ FieldNames(n)

\* C27: every request and every response shape has the open string-keyed
\* index signature of its envelope marker, with value type unknown, and so
\* a payload it accepts is still accepted with additional members of any
\* name and any value; no request or response shape is closed.
C27_EnvelopeShapesOpen ==
  /\ \A n \in EnvelopeShapes :
       /\ IsOpen(n)
       /\ ViewOf[n].index = <<unknown>>
       /\ MarkersOf(n) # {}
  /\ (pc = "decoded" /\ shape \in EnvelopeShapes) =>
       \A k \in Additional(shape, wire) :
         Accepts(shape, Drop(wire, k)) => typed.ok

C27_Witness ==
  /\ pc = "decoded"
  /\ shape = "Favorites.AddRequest"
  /\ Additional(shape, wire) # {}
  /\ \E k \in Additional(shape, wire) :
       /\ wire[k][1] = "obj"
       /\ Accepts(shape, Drop(wire, k))
  /\ typed.ok

\* ---- C28
PaginatedResponses ==
  {"SearchResponse", "Clients.FilterResponse", "Estimate.GetResponse",
   "Favorites.GetResponse", "Searches.FilterResponse"}

PaginationEnvelope == {"page", "numPages", "pageSize", "count"}

\* C28: every paginated response shape declares page, numPages, pageSize
\* and count, each required and each a number, so an accepted payload of
\* any of them carries the four as numbers; the shapes that declare any
\* of the four are the five and Estimate.PatchResponse, which extends
\* Estimate.GetResponse.
C28_PaginationEnvelope ==
  /\ \A n \in PaginatedResponses, k \in PaginationEnvelope :
       /\ k \in FieldNames(n)
       /\ ~FieldOf(n, k).opt
       /\ FieldOf(n, k).ty = number
  /\ {n \in ShapeNames : FieldNames(n) \cap PaginationEnvelope
                           \notin {{}, {"count"}}}
       = PaginatedResponses \cup {"Estimate.PatchResponse"}
  /\ (pc = "decoded" /\ shape \in PaginatedResponses /\ typed.ok) =>
       \A k \in PaginationEnvelope :
         k \in DOMAIN wire /\ wire[k][1] = "num"

C28_Witness ==
  /\ pc = "decoded"
  /\ shape = "Favorites.GetResponse"
  /\ typed.ok
  /\ PaginationEnvelope \subseteq DOMAIN wire

\* ---- C29
\* The range filters of SearchRequest that come as a min/max pair, by
\* what follows min and max in their names.
RangeStems ==
  {"Baths", "Bedrooms", "BedroomsPlus", "BedroomsTotal", "Beds", "BedsPlus",
   "Kitchens", "ListDate", "OpenHouseDate", "Price", "RepliersUpdatedOn",
   "SoldDate", "SoldPrice", "StreetNumber", "Sqft", "UnavailableDate",
   "UpdatedOn", "YearBuilt"}

MinField(stem) == "min" \o stem
MaxField(stem) == "max" \o stem

SameRangeType(stem) ==
  FieldOf("SearchRequest", MinField(stem)).ty
    = FieldOf("SearchRequest", MaxField(stem)).ty

\* C29: for every min/max pair of range filters of SearchRequest the min
\* field and the max field have the same value type, so a request accepted
\* with a value as the lower bound is accepted with that value as the
\* upper bound.
C29_RangePairsSameType ==
  /\ \A stem \in RangeStems :
       {MinField(stem), MaxField(stem)} \subseteq FieldNames("SearchRequest")
  /\ (pc = "decoded" /\ shape = "SearchRequest" /\ typed.ok) =>
       \A stem \in RangeStems :
         (MinField(stem) \in DOMAIN wire /\ MaxField(stem) \notin DOMAIN wire)
           => /\ SameRangeType(stem)
              /\ Accepts("SearchRequest",
                         Rename(wire, MinField(stem), MaxField(stem)))

\* ---- C30
\* The positions at which a value-set array holds a literal.
PositionsOf(arr, s) == {i \in DOMAIN arr : arr[i] = s}

\* C30: no value-set array holds the same literal twice: the number of
\* distinct members of each equals its length, and a literal the array
\* lists is at exactly one position.
C30_NoRepeatedLiteral ==
  /\ \A v \in ValueSetNames :
       Cardinality(Range(ValuesOf(v))) = Len(ValuesOf(v))
  /\ (pc = "member" /\ check.member) =>
       Cardinality(PositionsOf(ValuesOf(check.vs), check.lit)) = 1

C30_Witness ==
  /\ pc = "member"
  /\ check.vs = "StreetDirection"
  /\ check.member
  /\ PositionsOf(StreetDirectionValues, check.lit) = {Len(StreetDirectionValues)}
=============================================================================
